---- MODULE Spec2Model ----
(***************************************************************************)
(* reqtsv: the record store of src/src (lib.rs, component/mod.rs,          *)
(* requirement/mod.rs, main.rs): two in-memory tables, the staged          *)
(* draft/edit documents, the table files component.tsv / requirement.tsv   *)
(* with their .new / .old siblings, and the rename sequence at shutdown.   *)
(*                                                                         *)
(* Text values are sequences of one-character strings, so that the         *)
(* character tests of the sanitizers and the parse of a file name are      *)
(* computed, not assumed.                                                  *)
(***************************************************************************)
EXTENDS Integers, Sequences, FiniteSets, TLC

VARIABLES
  components,          \* AppCtx.components : Vec<Component>
  requirements,        \* AppCtx.requirements : Vec<Requirement>
  updated_component,   \* AppCtx.updated_component
  updated_requirement, \* AppCtx.updated_requirement
  table_files,         \* the six table paths of the project root
  staged_files,        \* staging documents the program created in the project root
  pc,                  \* position of main(): a record menu or a step of the shutdown
  last                 \* the operation that ran last: its input id and its result

vars == <<components, requirements, updated_component, updated_requirement,
          table_files, staged_files, pc, last>>

----------------------------------------------------------------------------
(* Bounds *)

MaxComponents == 2
MaxRequirements == 2
MaxVersion == 1
NumRandNames == 2
\* NUM_RETRIES of get_rand_file (12 * 41 * 10), cut down
MaxRetries == 3

----------------------------------------------------------------------------
(* Characters and strings *)

TAB == "\t"
LF == "\n"
CR == "\r"
BACKSLASH == "\\"

Digits == <<"0", "1", "2", "3", "4", "5", "6", "7", "8", "9">>

RECURSIVE contains_any(_, _)
contains_any(to_find, search_str) ==
  IF search_str = <<>> THEN FALSE
  ELSE IF Head(search_str) \in to_find THEN TRUE
  ELSE contains_any(to_find, Tail(search_str))

\* str::replace(from, to) for a pattern of one or two characters
RECURSIVE replace(_, _, _)
replace(s, from, to) ==
  IF Len(s) < Len(from) THEN s
  ELSE IF SubSeq(s, 1, Len(from)) = from
       THEN to \o replace(SubSeq(s, Len(from) + 1, Len(s)), from, to)
       ELSE <<Head(s)>> \o replace(Tail(s), from, to)

escape_normalize_nl(input) ==
  replace(replace(input, <<CR, LF>>, <<BACKSLASH, "n">>), <<LF>>, <<BACKSLASH, "n">>)

\* u64's Display: the decimal digits of n
RECURSIVE fmt_u64(_)
fmt_u64(n) ==
  IF n < 10 THEN <<Digits[n + 1]>>
  ELSE fmt_u64(n \div 10) \o <<Digits[(n % 10) + 1]>>

DigitValue(ch) == (CHOOSE i \in 1..10 : Digits[i] = ch) - 1

IsDigit(ch) == \E i \in 1..10 : Digits[i] = ch

RECURSIVE digits_value(_, _)
digits_value(s, acc) ==
  IF s = <<>> THEN acc
  ELSE digits_value(Tail(s), acc * 10 + DigitValue(Head(s)))

ParseErr == -1

\* str::parse::<u64>(): an optional "+", then one or more decimal digits;
\* anything else (a "-" included) is an error
parse_u64(s) ==
  LET body == IF s # <<>> /\ Head(s) = "+" THEN Tail(s) ELSE s
  IN IF body = <<>> \/ \E i \in 1..Len(body) : ~IsDigit(body[i])
     THEN ParseErr
     ELSE digits_value(body, 0)

----------------------------------------------------------------------------
(* Record types *)

Kinds == {"component", "requirement"}

COMPONENT_DRAFT_PREFIX == "component_draft"
COMPONENT_EDIT_PREFIX == "component_edit"
REQUIREMENT_DRAFT_PREFIX == "requirement_draft"
REQUIREMENT_EDIT_PREFIX == "requirement_edit"

RecordStatus == {"Draft", "Accepted", "Deleted"}
RequirementFunctional == {"Functional", "NonFunctional"}
RequirementPriority == {"Mandated", "High", "Med", "Low"}

Component(id, name, description, creation_date, status, author) ==
  [id |-> id, name |-> name, description |-> description,
   creation_date |-> creation_date, status |-> status, author |-> author]

\* a requirement that keeps the status of RequirementEdit::default()
Requirement_default_status(id, component_id, title, functional, creation_date, requirement_text, version, author, priority, status, risks) ==
  [id |-> id, component_id |-> component_id, title |-> title,
   functional |-> functional, creation_date |-> creation_date,
   requirement_text |-> requirement_text, version |-> version, author |-> author,
   priority |-> priority, status |-> "Draft", risks |-> risks]

Requirement(id, component_id, title, functional, creation_date, requirement_text, version, author, priority, status, risks) ==
  [id |-> id, component_id |-> component_id, title |-> title,
   functional |-> functional, creation_date |-> creation_date,
   requirement_text |-> requirement_text, version |-> version, author |-> author,
   priority |-> priority, status |-> status, risks |-> risks]

\* the column names serde derives from the struct fields, in declaration order
ComponentFields == <<"id", "name", "description", "creation_date", "status", "author">>
RequirementFields ==
  <<"id", "component_id", "title", "functional", "creation_date", "requirement_text",
    "version", "author", "priority", "status", "risks">>

COMPONENT_HEADER == <<"id", "name", "description", "creation_date", "status", "author">>
REQUIREMENT_HEADER ==
  <<"id", "component_id", "functional", "creation_date", "requirement", "version",
    "author", "priority", "status", "status_justification", "risks">>

get_tbl(kind) == IF kind = "component" THEN components ELSE requirements

edit_prefix(kind) ==
  IF kind = "component" THEN COMPONENT_EDIT_PREFIX ELSE REQUIREMENT_EDIT_PREFIX

draft_prefix(kind) ==
  IF kind = "component" THEN COMPONENT_DRAFT_PREFIX ELSE REQUIREMENT_DRAFT_PREFIX

----------------------------------------------------------------------------
(* Lookup.  A position is an index 1..Len(records); NotFound is 0. *)

NotFound == 0

\* Iterator::find: the first of the positions whose record satisfies the test
FirstPos(positions) ==
  IF positions = {} THEN NotFound
  ELSE CHOOSE i \in positions : \A j \in positions : i <= j

\* the positions of the records with the id
IdPositions(records, id) == {i \in 1..Len(records) : records[i].id = id}

\* records.get(id as usize) first (Vec index id is position id + 1), then a scan
mut_record_by_id(records, id) ==
  IF id + 1 <= Len(records) THEN id + 1
  ELSE FirstPos(IdPositions(records, id))

get_component_by_id(id) ==
  IF id + 1 <= Len(components) THEN id + 1
  ELSE FirstPos(IdPositions(components, id))

ref_record_by_id(records, id) ==
  FirstPos(IdPositions(records, id))

\* update_record's "find in db": records.get_mut(id as usize), else a scan
find_in_db(records, id) ==
  IF id + 1 <= Len(records) THEN id + 1
  ELSE FirstPos(IdPositions(records, id))

\* records.iter().max().map(|c| c.id).unwrap_or(0): Ord compares ids
max_id(records) ==
  IF records = <<>> THEN 0
  ELSE CHOOSE m \in {records[i].id : i \in 1..Len(records)} :
         \A i \in 1..Len(records) : records[i].id <= m

----------------------------------------------------------------------------
(* Table files *)

NoFile == [exists |-> FALSE, header |-> <<>>, rows |-> <<>>, complete |-> FALSE]

COMPONENT_TABLE_NAME == "component.tsv"
REQUIREMENT_TABLE_NAME == "requirement.tsv"

TablePaths ==
  {"component.tsv", "component.new.tsv", "component.old.tsv",
   "requirement.tsv", "requirement.new.tsv", "requirement.old.tsv"}

current_path(kind) ==
  IF kind = "component" THEN COMPONENT_TABLE_NAME ELSE REQUIREMENT_TABLE_NAME

new_path(kind) ==
  IF kind = "component" THEN "component.new.tsv" ELSE "requirement.new.tsv"

old_path(kind) ==
  IF kind = "component" THEN "component.old.tsv" ELSE "requirement.old.tsv"

\* a file's content: its header line, its rows, and whether all of it was
\* written and synced
FileContent(header, rows, complete) ==
  [exists |-> TRUE, header |-> header, rows |-> rows, complete |-> complete]

serde_header(kind) == IF kind = "component" THEN ComponentFields ELSE RequirementFields

\* what init_project leaves in the project root
init_project ==
  [p \in TablePaths |->
     IF p = COMPONENT_TABLE_NAME THEN FileContent(COMPONENT_HEADER, <<>>, TRUE)
     ELSE IF p = REQUIREMENT_TABLE_NAME THEN FileContent(REQUIREMENT_HEADER, <<>>, TRUE)
     ELSE NoFile]

\* the steps of wrtie_table that fail in the runs explored here, all after
\* the open that truncates tbl_new_path: a serialize, or the flush and
\* sync_all that follow the last row ("sync")
WriteFailPoints == {"serialize", "sync"}

\* wrtie_table: open tbl_new_path with create + truncate, serialize the
\* records (csv writes the header with the first record), flush, sync_all.
\* fail names the step that fails ("none": no step), written the number of
\* rows that reached the file before a failing serialize.
wrtie_table(files, kind, records, fail, written) ==
  IF fail = "serialize"
  THEN [files EXCEPT ![new_path(kind)] =
          FileContent(IF written = 0 THEN <<>> ELSE serde_header(kind),
                      SubSeq(records, 1, written), FALSE)]
  ELSE [files EXCEPT ![new_path(kind)] =
          FileContent(IF records = <<>> THEN <<>> ELSE serde_header(kind),
                      records, fail = "none")]

\* std::fs::rename(from, to): fails when from does not exist (or when the
\* file system refuses, io_ok = FALSE); replaces to when it exists
rename_ok(files, from, io_ok) == io_ok /\ files[from].exists

rename(files, from, to) == [files EXCEPT ![to] = files[from], ![from] = NoFile]

remove_file_ok(files, path, io_ok) == io_ok /\ files[path].exists

remove_file(files, path) == [files EXCEPT ![path] = NoFile]

----------------------------------------------------------------------------
(* Staging documents *)

\* A document's file name is prefix ++ mid ++ ".toml"; mid is what
\* update_record calls the number portion.
StagedFile(prefix, mid) == [prefix |-> prefix, mid |-> mid]

ALPHABET ==
  <<"_", "+", "=", "^", "~", "0", "1", "2", "3", "4", "5", "6", "7", "8", "9",
    "a", "b", "c", "d", "e", "f", "g", "h", "i", "g", "k", "l", "m", "n", "o",
    "p", "q", "r", "s", "t", "u", "f", "w", "x", "y", "z">>

\* the random parts get_rand_file can draw, cut down to NumRandNames of them
RandSuffixes == {<<ALPHABET[i]>> : i \in 1..NumRandNames}

\* ids an operator can type at the id prompt or put in a hand-made file name
IdInputs == 0..(IF MaxComponents > MaxRequirements THEN MaxComponents ELSE MaxRequirements)

\* documents the operator put in the project root by hand, by prefix: edit
\* documents named by a bare id, or the way create_edit_file names them
OperatorFiles(prefix) ==
  IF prefix \in {COMPONENT_EDIT_PREFIX, REQUIREMENT_EDIT_PREFIX}
  THEN {StagedFile(prefix, fmt_u64(i)) : i \in IdInputs}
         \cup {StagedFile(prefix, <<"-">> \o fmt_u64(0))}
  ELSE {StagedFile(prefix, <<>>)}

\* the filter of file_list_chose: the files of the project root whose name
\* starts with the prefix and ends with ".toml"
file_list(prefix, operator_files) ==
  {f \in staged_files : f.prefix = prefix} \cup operator_files

\* the name create_edit_file gives the document of a record
edit_file_name(prefix, id) == StagedFile(prefix, <<"-">> \o fmt_u64(id))

\* get_rand_file: the outcomes of the retry loop.  A name that does not exist
\* yet is created; every attempt can also draw an existing name, and any
\* open can fail otherwise.
get_rand_file(prefix) ==
  LET existing == {f \in staged_files : f.prefix = prefix}
      free == {StagedFile(prefix, <<"-">> \o sfx) : sfx \in RandSuffixes} \ existing
  IN {[res |-> "ok", file |-> f] : f \in free}
       \cup (IF existing # {}
             THEN {[res |-> "exhausted", file |-> StagedFile(prefix, <<>>)]} ELSE {})
       \cup {[res |-> "io", file |-> StagedFile(prefix, <<>>)]}

\* what the operator can have typed into a component draft or edit document
ComponentDocInputs ==
  {[name |-> <<"a">>, description |-> <<"d", LF, "e">>, author |-> <<"x">>],
   [name |-> <<"b">>, description |-> <<"d">>, author |-> <<"x">>],
   [name |-> <<"a", TAB>>, description |-> <<"d">>, author |-> <<"x">>]}

RequirementEdit(title, requirement_text) ==
  [functional |-> "Functional", title |-> title, requirement_text |-> requirement_text,
   author |-> <<"x">>, priority |-> "High", status |-> "Draft", risks |-> <<"k">>]

\* ... and into a requirement draft or edit document
RequirementDocInputs ==
  {RequirementEdit(<<"t">>, <<"r">>), RequirementEdit(<<"u">>, <<"s">>),
   RequirementEdit(<<"t">>, <<"s">>), RequirementEdit(<<"t", LF>>, <<"r">>)}

SanitizeErr == [err |-> "Sanitize"]

IsErr(x) == "err" \in DOMAIN x

sanitize_component_draft(draft) ==
  IF contains_any({LF, CR, TAB}, draft.name) THEN SanitizeErr
  ELSE IF contains_any({TAB}, draft.description) THEN SanitizeErr
  ELSE IF contains_any({TAB}, draft.author) THEN SanitizeErr
  ELSE [draft EXCEPT !.description = escape_normalize_nl(draft.description)]

sanitize_component_edit(draft) ==
  IF contains_any({LF, CR, TAB}, draft.name) THEN SanitizeErr
  ELSE IF contains_any({TAB}, draft.description) THEN SanitizeErr
  ELSE IF contains_any({LF, CR, TAB}, draft.author) THEN SanitizeErr
  ELSE [draft EXCEPT !.description = escape_normalize_nl(draft.description)]

\* RequirementEdit::sanitize: the escaped requirement text is assigned to
\* risks (mod.rs:287-289), then risks is escaped
RequirementEdit_sanitize(self) ==
  IF contains_any({TAB}, self.risks) THEN SanitizeErr
  ELSE IF contains_any({TAB}, self.requirement_text) THEN SanitizeErr
  ELSE IF contains_any({LF, TAB, CR}, self.author) THEN SanitizeErr
  ELSE IF contains_any({LF, TAB, CR}, self.title) THEN SanitizeErr
  ELSE LET risks1 == IF escape_normalize_nl(self.requirement_text) # self.requirement_text
                     THEN escape_normalize_nl(self.requirement_text)
                     ELSE self.risks
       IN [self EXCEPT !.risks = escape_normalize_nl(risks1)]

EditFile_sanitize(kind, doc) ==
  IF kind = "component" THEN sanitize_component_edit(doc) ELSE RequirementEdit_sanitize(doc)

EditDocInputs(kind) ==
  IF kind = "component" THEN ComponentDocInputs ELSE RequirementDocInputs

----------------------------------------------------------------------------
(* RecordType, per kind *)

\* a conflict check that passes over the records whose status is Deleted
check_for_conflict_skips_deleted(kind, self, rhs) ==
  /\ self.status # "Deleted"
  /\ IF kind = "component" THEN self.name = rhs.name
     ELSE self.requirement_text = rhs.requirement_text \/ self.title = rhs.title

\* Component::check_for_conflict / Requirement::check_for_conflict:
\* TRUE when the record conflicts with the edit file
check_for_conflict(kind, self, rhs) ==
  IF kind = "component" THEN self.name = rhs.name
  ELSE self.requirement_text = rhs.requirement_text \/ self.title = rhs.title

update_from_edit(kind, self, ef) ==
  IF kind = "component"
  THEN [self EXCEPT !.name = ef.name, !.description = ef.description,
                    !.author = ef.author]
  ELSE [self EXCEPT !.functional = ef.functional, !.title = ef.title,
                    !.requirement_text = ef.requirement_text,
                    !.version = self.version + 1, !.author = ef.author,
                    !.priority = ef.priority, !.risks = ef.risks]

\* a status accessor that reports every record as live
get_status_always_accepted(self) == "Accepted"

get_status(self) == self.status

set_accepted(self) == [self EXCEPT !.status = "Accepted"]

set_deleted(self) == [self EXCEPT !.status = "Deleted"]

----------------------------------------------------------------------------
(* State *)

NoId == -1

\* the record of the operation that ran last: the id it was given (or, for
\* an insert, assigned) and its result
Last(op, kind, res, id) == [op |-> op, kind |-> kind, res |-> res, id |-> id]

\* Local::now() as read by the insert that appends to records: the instant
\* is named by the ordinal of that insert in its table
Local_now(records) == Len(records) + 1

\* component tables an earlier session can have left in component.tsv
LoadedComponentTables ==
  {<<>>,
   <<Component(0, <<"a">>, escape_normalize_nl(<<"d", LF, "e">>), 1, "Accepted", <<"x">>),
     Component(0, <<"b">>, <<"d">>, 2, "Deleted", <<"x">>)>>}

\* main() up to the menu loop: both tables are loaded from the project root.
\* A session works in one record menu: the component menu of a freshly
\* initialized project, or the requirement menu of a project whose component
\* table an earlier session wrote.
Init ==
  /\ requirements = <<>>
  /\ updated_component = FALSE
  /\ updated_requirement = FALSE
  /\ staged_files = {}
  /\ \/ /\ pc = "component_menu"
        /\ components = <<>>
        /\ table_files = init_project
        /\ last = Last("start", "component", "ok", NoId)
     \/ /\ pc = "requirement_menu"
        /\ components \in LoadedComponentTables
        /\ table_files =
             IF components = <<>> THEN init_project
             ELSE [init_project EXCEPT ![COMPONENT_TABLE_NAME] =
                     FileContent(ComponentFields, components, TRUE)]
        /\ last = Last("start", "requirement", "ok", NoId)

menu(kind) == IF kind = "component" THEN "component_menu" ELSE "requirement_menu"

\* an operation that returns without touching the tables or the files
Return(l) ==
  /\ last' = l
  /\ UNCHANGED <<components, requirements, updated_component, updated_requirement,
                 table_files, staged_files, pc>>

\* the ways a table write of these records can go: <<"none", 0>> succeeds,
\* the others name the failing step and the rows written before it
WriteInputs(records) ==
  {<<f, 0>> : f \in {"none"} \cup (WriteFailPoints \ {"serialize"})}
    \cup {<<"serialize", k>> : k \in 0..(Len(records) - 1)}

\* AppCtx::write_components / write_requirements on the table tbl: the
\* updated flag is set only when wrtie_table returned Ok
write_table(kind, tbl, w) ==
  /\ table_files' = wrtie_table(table_files, kind, tbl, w[1], w[2])
  /\ IF kind = "component"
     THEN /\ updated_component' = (updated_component \/ w[1] = "none")
          /\ UNCHANGED updated_requirement
     ELSE /\ updated_requirement' = (updated_requirement \/ w[1] = "none")
          /\ UNCHANGED updated_component

write_result(w) == IF w[1] = "none" THEN "ok" ELSE "io"

set_tbl(kind, tbl) ==
  IF kind = "component"
  THEN components' = tbl /\ UNCHANGED requirements
  ELSE requirements' = tbl /\ UNCHANGED components

\* the ids of all components, whatever their status
all_components == {components[i].id : i \in 1..Len(components)}

\* the ids of the components insert_requirement_draft and change_component
\* offer: those whose status is Accepted
accepted_components ==
  {components[i].id : i \in {j \in 1..Len(components) : components[j].status = "Accepted"}}

----------------------------------------------------------------------------
(* Menu operations *)

\* insert_component_draft from the point where the chosen draft was read
\* and parsed as raw: sanitize, the name check, the push and the write
insert_component(raw) ==
  LET draft == sanitize_component_draft(raw) IN
  IF IsErr(draft) THEN Return(Last("insert", "component", "sanitize", NoId))
  ELSE
  LET hit == FirstPos({i \in 1..Len(components) : components[i].name = draft.name})
  IN
  IF hit # NotFound
  THEN Return(Last("insert", "component", "conflict", components[hit].id))
  ELSE
  /\ Len(components) < MaxComponents
  /\ LET id == max_id(components)
         name == replace(draft.name, <<LF>>, <<BACKSLASH, "n">>)
         tbl == Append(components,
                       Component(id, name, draft.description,
                                 Local_now(components), "Accepted", draft.author))
     IN \E w \in WriteInputs(tbl) :
          /\ components' = tbl
          /\ write_table("component", tbl, w)
          /\ last' = Last("insert", "component", write_result(w), id)
          /\ UNCHANGED <<requirements, staged_files, pc>>

\* insert_component_draft(ctx)
insert_component_draft ==
  /\ pc = "component_menu"
  /\ LET L(res) == Last("insert", "component", res, NoId) IN
     \/ file_list(COMPONENT_DRAFT_PREFIX, {}) = {} /\ Return(L("no_files"))
     \/ Return(L("cancel"))       \* the file selection is skipped
     \/ Return(L("io"))           \* the draft cannot be opened or read
     \/ Return(L("bad_doc"))      \* toml::from_str fails
     \/ \E draft_file_entry \in
             file_list(COMPONENT_DRAFT_PREFIX, OperatorFiles(COMPONENT_DRAFT_PREFIX)),
           raw \in ComponentDocInputs :
          insert_component(raw)

\* insert_requirement_draft from the point where the component was chosen
\* and the chosen draft was read and parsed as raw
insert_requirement(component_id, raw) ==
  LET draft_file == RequirementEdit_sanitize(raw) IN
  IF IsErr(draft_file) THEN Return(Last("insert", "requirement", "sanitize", NoId))
  ELSE
  LET hit == FirstPos({i \in 1..Len(requirements) :
                          check_for_conflict("requirement", requirements[i], draft_file)})
  IN
  IF hit # NotFound
  THEN Return(Last("insert", "requirement", "conflict", requirements[hit].id))
  ELSE
  /\ Len(requirements) < MaxRequirements
  /\ LET id == max_id(requirements)
         tbl == Append(requirements,
                  Requirement(id, component_id, draft_file.title,
                              draft_file.functional, Local_now(requirements),
                              draft_file.requirement_text, 0,
                              draft_file.author, draft_file.priority,
                              "Accepted", draft_file.risks))
     IN \E w \in WriteInputs(tbl) :
          /\ requirements' = tbl
          /\ write_table("requirement", tbl, w)
          /\ last' = Last("insert", "requirement", write_result(w), id)
          /\ UNCHANGED <<components, staged_files, pc>>

\* insert_requirement_draft(ctx, draft_prefix)
insert_requirement_draft ==
  /\ pc = "requirement_menu"
  /\ LET L(res) == Last("insert", "requirement", res, NoId) IN
     IF accepted_components = {} THEN Return(L("no_components"))
     ELSE
     \/ Return(L("cancel"))       \* the component or the file selection is skipped
     \/ file_list(REQUIREMENT_DRAFT_PREFIX, {}) = {} /\ Return(L("no_files"))
     \/ Return(L("io"))
     \/ Return(L("bad_doc"))
     \/ \E component_id \in accepted_components,
           draft_file_entry \in
             file_list(REQUIREMENT_DRAFT_PREFIX, OperatorFiles(REQUIREMENT_DRAFT_PREFIX)),
           raw \in RequirementDocInputs :
          insert_requirement(component_id, raw)

\* update_record from the point where the id was parsed from the file name
\* and the edit document was read and parsed as raw
update(kind, id, raw) ==
  LET L(res, i) == Last("update", kind, res, i)
      records == get_tbl(kind)
      edit_file == EditFile_sanitize(kind, raw)
  IN
  IF IsErr(edit_file) THEN Return(L("sanitize", NoId))
  ELSE
  LET hit == FirstPos({i \in 1..Len(records) :
                          /\ records[i].id # id
                          /\ check_for_conflict(kind, records[i], edit_file)})
      at == find_in_db(records, id)
  IN
  IF hit # NotFound THEN Return(L("conflict", id))
  ELSE IF at = NotFound THEN Return(L("not_found", id))
  ELSE
  /\ kind = "requirement" => records[at].version < MaxVersion
  /\ LET tbl == [records EXCEPT ![at] =
                   set_accepted(update_from_edit(kind, records[at], edit_file))]
     IN \E w \in WriteInputs(tbl) :
          /\ set_tbl(kind, tbl)
          /\ write_table(kind, tbl, w)
          /\ last' = L(write_result(w), id)
          /\ UNCHANGED <<staged_files, pc>>

\* update_record::<R>(ctx, edit_prefix)
update_record(kind) ==
  /\ pc = menu(kind)
  /\ LET L(res, id) == Last("update", kind, res, id) IN
     \/ file_list(edit_prefix(kind), {}) = {} /\ Return(L("no_files", NoId))
     \/ Return(L("cancel", NoId))
     \/ LET found == file_list(edit_prefix(kind), OperatorFiles(edit_prefix(kind)))
            \* the files whose number portion parses as a u64
            numbered == {f \in found : parse_u64(f.mid) # ParseErr}
        IN
        \/ found # numbered /\ Return(L("bad_name", NoId))
        \/ numbered # {} /\ Return(L("io", NoId))        \* open or read fails
        \/ numbered # {} /\ Return(L("bad_doc", NoId))   \* toml::from_str fails
        \/ \E edit_file_entry \in numbered, raw \in EditDocInputs(kind) :
             LET number_portion == edit_file_entry.mid
                 id == parse_u64(number_portion)
             IN update(kind, id, raw)

\* a delete that marks the record before it asks for the confirmation
delete_before_confirm(kind, id) ==
  LET L(res) == Last("delete", kind, res, id)
      records == get_tbl(kind)
      at == mut_record_by_id(records, id)
  IN
  IF at = NotFound THEN Return(L("not_found"))
  ELSE IF get_status(records[at]) = "Deleted" THEN Return(L("already_deleted"))
  ELSE
  LET tbl == [records EXCEPT ![at] = set_deleted(records[at])] IN
  \/ /\ set_tbl(kind, tbl)
     /\ last' = L("cancel")
     /\ UNCHANGED <<updated_component, updated_requirement, table_files,
                    staged_files, pc>>
  \/ \E w \in WriteInputs(tbl) :
       /\ set_tbl(kind, tbl)
       /\ write_table(kind, tbl, w)
       /\ last' = L(write_result(w))
       /\ UNCHANGED <<staged_files, pc>>

\* delete_record::<R>(ctx), from the record id the operator typed
delete(kind, id) ==
  LET L(res) == Last("delete", kind, res, id)
      records == get_tbl(kind)
      at == mut_record_by_id(records, id)
  IN
  IF at = NotFound THEN Return(L("not_found"))
  ELSE IF get_status(records[at]) = "Deleted" THEN Return(L("already_deleted"))
  ELSE
  \/ Return(L("cancel"))                      \* the confirmation is declined
  \/ LET tbl == [records EXCEPT ![at] = set_deleted(records[at])]
     IN \E w \in WriteInputs(tbl) :
          /\ set_tbl(kind, tbl)
          /\ write_table(kind, tbl, w)
          /\ last' = L(write_result(w))
          /\ UNCHANGED <<staged_files, pc>>

\* delete_record::<R>(ctx)
delete_record(kind) ==
  /\ pc = menu(kind)
  /\ \/ Return(Last("delete", kind, "cancel", NoId))   \* the id prompt is skipped
     \/ \E id \in IdInputs : delete(kind, id)

\* change_component(ctx)
change_component ==
  /\ pc = "requirement_menu"
  /\ LET L(res, id) == Last("change_component", "requirement", res, id) IN
     \/ Return(L("cancel", NoId))             \* the id prompt is skipped
     \/ \E req_id \in IdInputs :
          LET at == mut_record_by_id(requirements, req_id) IN
          IF at = NotFound THEN Return(L("not_found", req_id))
          ELSE IF accepted_components = {} THEN Return(L("no_components", req_id))
          ELSE
          \/ Return(L("cancel", req_id))      \* the component selection is skipped
          \/ \E component_id \in accepted_components :
               LET tbl == [requirements EXCEPT ![at].component_id = component_id]
               IN \E w \in WriteInputs(tbl) :
                    /\ requirements' = tbl
                    /\ write_table("requirement", tbl, w)
                    /\ last' = L(write_result(w), req_id)
                    /\ UNCHANGED <<components, staged_files, pc>>

\* create_draft_file::<EF>(ctx, draft_prefix)
create_draft_file(kind) ==
  /\ pc = menu(kind)
  /\ \E out \in get_rand_file(draft_prefix(kind)), write_ok \in BOOLEAN :
       /\ staged_files' = IF out.res = "ok" THEN staged_files \cup {out.file}
                          ELSE staged_files
       /\ last' = Last("new_draft", kind,
                       IF out.res = "ok" /\ ~write_ok THEN "io" ELSE out.res, NoId)
       /\ UNCHANGED <<components, requirements, updated_component,
                      updated_requirement, table_files, pc>>

\* create_edit_file::<R>(ctx, edit_prefix)
create_edit_file(kind) ==
  /\ pc = menu(kind)
  /\ LET L(res, id) == Last("edit", kind, res, id) IN
     \/ Return(L("cancel", NoId))             \* the id prompt is skipped
     \/ \E id \in IdInputs :
          LET at == ref_record_by_id(get_tbl(kind), id) IN
          IF at = NotFound THEN Return(L("not_found", id))
          ELSE
          \/ Return(L("io", id))              \* the document cannot be created
          \/ \E write_ok \in BOOLEAN :
               /\ staged_files' = staged_files
                    \cup {edit_file_name(edit_prefix(kind), get_tbl(kind)[at].id)}
               /\ last' = L(IF write_ok THEN "ok" ELSE "io", id)
               /\ UNCHANGED <<components, requirements, updated_component,
                              updated_requirement, table_files, pc>>

----------------------------------------------------------------------------
(* main(): leaving the menu loop and the rename sequence (main.rs:104-174) *)

\* AppCtx::updated_component / updated_requirement
updated(kind) == IF kind = "component" THEN updated_component ELSE updated_requirement

\* a shutdown that leaves the table files as they are
after_menu_without_replace == "done"

after_menu ==
  IF updated_requirement THEN "req_rename_old"
  ELSE IF updated_component THEN "comp_rename_old"
  ELSE "done"

after_requirement == IF updated_component THEN "comp_rename_old" ELSE "done"

\* a step of the shutdown: the files change, main() moves on
Step(files, next, res) ==
  /\ table_files' = files
  /\ pc' = next
  /\ last' = Last(pc, last.kind, res, NoId)
  /\ UNCHANGED <<components, requirements, updated_component, updated_requirement,
                 staged_files>>

\* main_menu_loop returns: Exit was chosen, the prompt was skipped, or a
\* prompt of any menu failed with an InquireError
main_menu_exit ==
  /\ pc \in {"component_menu", "requirement_menu"}
  /\ \E res \in {"ok", "prompt_error"} :
       /\ pc' = after_menu
       /\ last' = Last("exit", last.kind, res, NoId)
       /\ UNCHANGED <<components, requirements, updated_component,
                      updated_requirement, table_files, staged_files>>

\* rename(&req_current, &req_old): an error is printed and not returned
req_rename_old ==
  /\ pc = "req_rename_old"
  /\ \E io_ok \in BOOLEAN :
       IF rename_ok(table_files, current_path("requirement"), io_ok)
       THEN Step(rename(table_files, current_path("requirement"),
                        old_path("requirement")), "req_rename_new", "ok")
       ELSE Step(table_files, "req_remove_old", "io")

\* rename(&req_new, &req_current)?
req_rename_new ==
  /\ pc = "req_rename_new"
  /\ \E io_ok \in BOOLEAN :
       IF rename_ok(table_files, new_path("requirement"), io_ok)
       THEN Step(rename(table_files, new_path("requirement"),
                        current_path("requirement")), "req_remove_old", "ok")
       ELSE Step(table_files, "done", "io")

\* std::fs::remove_file(&req_old)?
req_remove_old ==
  /\ pc = "req_remove_old"
  /\ \E io_ok \in BOOLEAN :
       IF remove_file_ok(table_files, old_path("requirement"), io_ok)
       THEN Step(remove_file(table_files, old_path("requirement")),
                 after_requirement, "ok")
       ELSE Step(table_files, "done", "io")

\* rename(&comp_current, &comp_old)?
comp_rename_old ==
  /\ pc = "comp_rename_old"
  /\ \E io_ok \in BOOLEAN :
       IF rename_ok(table_files, current_path("component"), io_ok)
       THEN Step(rename(table_files, current_path("component"),
                        old_path("component")), "comp_rename_new", "ok")
       ELSE Step(table_files, "done", "io")

\* rename(&comp_new, &comp_current)?
comp_rename_new ==
  /\ pc = "comp_rename_new"
  /\ \E io_ok \in BOOLEAN :
       IF rename_ok(table_files, new_path("component"), io_ok)
       THEN Step(rename(table_files, new_path("component"),
                        current_path("component")), "comp_remove_old", "ok")
       ELSE Step(table_files, "done", "io")

\* std::fs::remove_file(&comp_old)?
comp_remove_old ==
  /\ pc = "comp_remove_old"
  /\ \E io_ok \in BOOLEAN :
       IF remove_file_ok(table_files, old_path("component"), io_ok)
       THEN Step(remove_file(table_files, old_path("component")), "done", "ok")
       ELSE Step(table_files, "done", "io")

----------------------------------------------------------------------------
(* Specification *)

Next ==
  \/ insert_component_draft
  \/ insert_requirement_draft
  \/ \E kind \in Kinds : update_record(kind)
  \/ \E kind \in Kinds : delete_record(kind)
  \/ change_component
  \/ main_menu_exit
  \/ req_rename_old
  \/ req_rename_new
  \/ req_remove_old
  \/ comp_rename_old
  \/ comp_rename_new
  \/ comp_remove_old

Spec == Init /\ [][Next]_vars

\* the sessions in which no table write, no open of a document and no step
\* of the shutdown fails
OkNext == Next /\ last'.res # "io"

OkSpec == Init /\ [][OkNext]_vars

\* the staging workflow of a session: a draft is created and inserted, an
\* edit document is created and applied
StagingNext ==
  \/ \E kind \in Kinds : create_draft_file(kind)
  \/ insert_component_draft
  \/ insert_requirement_draft
  \/ \E kind \in Kinds : create_edit_file(kind)
  \/ \E kind \in Kinds : update_record(kind)

StagingSpec == Init /\ [][StagingNext]_vars

\* a component table whose records carry one id each, as component.tsv holds
\* it when the rows were written outside of this program: the loader takes
\* every row that deserializes
ImportedComponentTable ==
  <<Component(0, <<"a">>, <<"d">>, 1, "Accepted", <<"x">>),
    Component(1, <<"b">>, <<"d">>, 2, "Accepted", <<"x">>)>>

\* main() up to the menu loop, on a project with that component table
ImportedInit ==
  /\ requirements = <<>>
  /\ updated_component = FALSE
  /\ updated_requirement = FALSE
  /\ staged_files = {}
  /\ pc = "requirement_menu"
  /\ components = ImportedComponentTable
  /\ table_files = [init_project EXCEPT ![COMPONENT_TABLE_NAME] =
                      FileContent(ComponentFields, components, TRUE)]
  /\ last = Last("start", "requirement", "ok", NoId)

\* a session in the requirement menu
ImportedNext ==
  \/ insert_requirement_draft
  \/ update_record("requirement")
  \/ delete_record("requirement")
  \/ change_component
  \/ main_menu_exit
  \/ req_rename_old
  \/ req_rename_new
  \/ req_remove_old

ImportedSpec == ImportedInit /\ [][ImportedNext]_vars

\* documents with white space in their fields: a line break in a name or an
\* author, a tab, a multi-line description
WsComponentDocInputs ==
  {[name |-> n, description |-> d, author |-> a] :
     n \in {<<"a">>, <<"b">>, <<"a", LF>>},
     d \in {<<"d">>, <<"d", CR, LF, "e">>},
     a \in {<<"x">>, <<"x", LF>>, <<"x", TAB>>}}

WsRequirementDocInputs ==
  {[RequirementEdit(t, r) EXCEPT !.risks = k] :
     t \in {<<"t">>, <<"u">>},
     r \in {<<"r">>, <<"r", LF, "s">>},
     k \in {<<"k">>, <<"k", LF>>}}

WsDocInputs(kind) ==
  IF kind = "component" THEN WsComponentDocInputs ELSE WsRequirementDocInputs

\* insert_component_draft on a draft that was chosen, read and parsed
insert_component_doc ==
  /\ pc = "component_menu"
  /\ \E raw \in WsComponentDocInputs : insert_component(raw)

\* insert_requirement_draft on a component and a draft that were chosen
insert_requirement_doc ==
  /\ pc = "requirement_menu"
  /\ \E component_id \in accepted_components, raw \in WsRequirementDocInputs :
       insert_requirement(component_id, raw)

\* update_record on an edit document that was chosen, read and parsed
update_record_doc(kind) ==
  /\ pc = menu(kind)
  /\ \E id \in IdInputs, raw \in WsDocInputs(kind) : update(kind, id, raw)

\* a session that inserts and updates from documents with white space
WsNext ==
  \/ insert_component_doc
  \/ insert_requirement_doc
  \/ \E kind \in Kinds : update_record_doc(kind)

WsSpec == Init /\ [][WsNext]_vars

-----------------------------------------------------------------------------
(* atomic_file_update *)

\* the siblings atomic_file_update derives from the file name of current
afu_new(current) == current \o ".new"

afu_old(current) == current \o ".old"

\* the table file a caller replaces, and the directory entries of a call
AfuCurrent == COMPONENT_TABLE_NAME

AfuPaths == {AfuCurrent, afu_new(AfuCurrent), afu_old(AfuCurrent)}

\* the byte strings a caller hands over as file_content: serialized tables
AfuContents ==
  {FileContent(ComponentFields, tbl, TRUE) :
     tbl \in (LoadedComponentTables \ {<<>>})
               \cup {ImportedComponentTable, SubSeq(ImportedComponentTable, 1, 1)}}

\* the file right after open with create_new: no bytes yet
AfuCreated == FileContent(<<>>, <<>>, FALSE)

\* the ways write_flush_sync can go: <<"none", 0>> succeeds, <<"write", k>>
\* fails in write_all after k rows, <<"sync", 0>> fails in flush or sync_all
AfuWriteInputs(file_content) ==
  {<<"none", 0>>, <<"sync", 0>>}
    \cup {<<"write", k>> : k \in 0..(Len(file_content.rows) - 1)}

\* write_flush_sync(Done(f_new), file_content): what the file holds afterwards
write_flush_sync(file_content, w) ==
  IF w[1] = "write"
  THEN FileContent(IF w[2] = 0 THEN <<>> ELSE file_content.header,
                   SubSeq(file_content.rows, 1, w[2]), FALSE)
  ELSE [file_content EXCEPT !.complete = (w[1] = "none")]

\* a write whose error is dropped instead of returned
write_error_ignored(w) == FALSE

\* the `?` after write_flush_sync
write_error(w) == w[1] # "none"

\* a failed first rename that falls through to the second rename
rename_old_falls_through(ok) == "afu_rename_new"

\* the `?` after rename(&current, &old)
after_rename_old(ok) == IF ok THEN "afu_rename_new" ELSE "afu_ready"

\* the call in progress: the step that ran last (or, for a writer that
\* stopped, the step it did not reach), its result, the bytes handed over and
\* the directory as it was when the call started
AfuLast(op, res, file_content, before) ==
  [op |-> op, kind |-> "component", res |-> res, id |-> NoId,
   file_content |-> file_content, before |-> before]

AfuStep(files, next, op, res) ==
  /\ table_files' = files
  /\ pc' = next
  /\ last' = AfuLast(op, res, last.file_content, last.before)
  /\ UNCHANGED <<components, requirements, updated_component,
                 updated_requirement, staged_files>>

\* a caller's directory before a call: the table file or nothing at current,
\* possibly siblings a stopped writer left behind
AfuInit ==
  /\ components = <<>>
  /\ requirements = <<>>
  /\ updated_component = FALSE
  /\ updated_requirement = FALSE
  /\ staged_files = {}
  /\ pc = "afu_ready"
  /\ \E cur \in AfuContents \cup {NoFile},
        stale_new \in {NoFile, AfuCreated},
        stale_old \in {NoFile} \cup {FileContent(ComponentFields, ImportedComponentTable, TRUE)} :
       table_files = [p \in AfuPaths |->
                        IF p = AfuCurrent THEN cur
                        ELSE IF p = afu_new(AfuCurrent) THEN stale_new
                        ELSE stale_old]
  /\ last = AfuLast("start", "ok", NoFile, table_files)

\* atomic_file_update(current, file_content, old_file), up to the open of the
\* new file with create_new
atomic_file_update ==
  /\ pc = "afu_ready"
  /\ \E file_content \in AfuContents, io_ok \in BOOLEAN :
       /\ IF io_ok /\ ~table_files[afu_new(AfuCurrent)].exists
          THEN /\ table_files' = [table_files EXCEPT ![afu_new(AfuCurrent)] = AfuCreated]
               /\ pc' = "afu_write"
               /\ last' = AfuLast("afu_open", "ok", file_content, table_files)
          ELSE /\ UNCHANGED <<table_files, pc>>
               /\ last' = AfuLast("afu_open", "io", file_content, table_files)
       /\ UNCHANGED <<components, requirements, updated_component,
                      updated_requirement, staged_files>>

\* write_flush_sync(WriteFlushSync::Done(f_new), file_content)?
afu_write ==
  /\ pc = "afu_write"
  /\ \E w \in AfuWriteInputs(last.file_content) :
       AfuStep([table_files EXCEPT ![afu_new(AfuCurrent)] =
                  write_flush_sync(last.file_content, w)],
               IF write_error(w) THEN "afu_ready" ELSE "afu_rename_old",
               "afu_write", IF w[1] = "none" THEN "ok" ELSE "io")

\* the two renames in the wrong order: the new file goes onto current first
afu_rename_new_first ==
  /\ pc = "afu_rename_old"
  /\ \E io_ok \in BOOLEAN :
       LET ok == rename_ok(table_files, afu_new(AfuCurrent), io_ok) IN
       AfuStep(IF ok THEN rename(table_files, afu_new(AfuCurrent), AfuCurrent)
               ELSE table_files,
               after_rename_old(ok), "afu_rename_old", IF ok THEN "ok" ELSE "io")

\* std::fs::rename(&current, &old)?
afu_rename_old ==
  /\ pc = "afu_rename_old"
  /\ \E io_ok \in BOOLEAN :
       LET ok == rename_ok(table_files, AfuCurrent, io_ok) IN
       AfuStep(IF ok THEN rename(table_files, AfuCurrent, afu_old(AfuCurrent))
               ELSE table_files,
               after_rename_old(ok), "afu_rename_old", IF ok THEN "ok" ELSE "io")

\* std::fs::rename(&new, &current)?
afu_rename_new ==
  /\ pc = "afu_rename_new"
  /\ \E io_ok \in BOOLEAN :
       IF rename_ok(table_files, afu_new(AfuCurrent), io_ok)
       THEN AfuStep(rename(table_files, afu_new(AfuCurrent), AfuCurrent),
                    "afu_remove_old", "afu_rename_new", "ok")
       ELSE AfuStep(table_files, "afu_ready", "afu_rename_new", "io")

\* std::fs::remove_file(&old), whose result is the result of the call
afu_remove_old ==
  /\ pc = "afu_remove_old"
  /\ \E io_ok \in BOOLEAN :
       IF remove_file_ok(table_files, afu_old(AfuCurrent), io_ok)
       THEN AfuStep(remove_file(table_files, afu_old(AfuCurrent)),
                    "afu_ready", "afu_remove_old", "ok")
       ELSE AfuStep(table_files, "afu_ready", "afu_remove_old", "io")

\* the writer stops (the process is killed) before the step at pc runs
afu_stop ==
  /\ pc \in {"afu_write", "afu_rename_old", "afu_rename_new", "afu_remove_old"}
  /\ AfuStep(table_files, "afu_ready", pc, "stopped")

AfuNext ==
  \/ atomic_file_update
  \/ afu_write
  \/ afu_rename_old
  \/ afu_rename_new
  \/ afu_remove_old
  \/ afu_stop

AfuSpec == AfuInit /\ [][AfuNext]_vars

----------------------------------------------------------------------------
(* init_project *)

\* an existence test that never finds the file
path_exists_never(files, path) == FALSE

\* Path::exists
path_exists(files, path) == files[path].exists

\* the table file init_project writes for a record kind
HeaderOnly(kind) ==
  FileContent(IF kind = "component" THEN COMPONENT_HEADER ELSE REQUIREMENT_HEADER,
              <<>>, TRUE)

\* the steps of init_project that can fail, "none" for a run without failure
InitFailPoints ==
  {"none", "component_open", "component_write", "requirement_open", "requirement_write"}

\* init_project(project_root) on the directory files: the result and the
\* directory afterwards
init_project_on(files, fail) ==
  LET unwritten == FileContent(<<>>, <<>>, FALSE)
      with_component == [files EXCEPT ![COMPONENT_TABLE_NAME] = HeaderOnly("component")]
  IN
  IF path_exists(files, COMPONENT_TABLE_NAME)
  THEN [res |-> "component_exists", files |-> files]
  ELSE IF path_exists(files, REQUIREMENT_TABLE_NAME)
  THEN [res |-> "requirement_exists", files |-> files]
  ELSE IF fail = "component_open" THEN [res |-> "io", files |-> files]
  ELSE IF fail = "component_write"
  THEN [res |-> "io", files |-> [files EXCEPT ![COMPONENT_TABLE_NAME] = unwritten]]
  ELSE IF fail = "requirement_open" THEN [res |-> "io", files |-> with_component]
  ELSE IF fail = "requirement_write"
  THEN [res |-> "io",
        files |-> [with_component EXCEPT ![REQUIREMENT_TABLE_NAME] = unwritten]]
  ELSE [res |-> "ok",
        files |-> [with_component EXCEPT
                     ![REQUIREMENT_TABLE_NAME] = HeaderOnly("requirement")]]

\* what a project root can hold when reqtsv is started with --init
InitDirectories ==
  {files \in [TablePaths -> {NoFile, HeaderOnly("component"), HeaderOnly("requirement"),
                             FileContent(ComponentFields, ImportedComponentTable, TRUE)}] :
     /\ files[COMPONENT_TABLE_NAME] # HeaderOnly("requirement")
     /\ files[REQUIREMENT_TABLE_NAME]
          \in {NoFile, HeaderOnly("requirement")}
     /\ \A kind \in Kinds : \A p \in {new_path(kind), old_path(kind)} :
          files[p] \in {NoFile, HeaderOnly(kind)}}

InitProjectInit ==
  /\ components = <<>>
  /\ requirements = <<>>
  /\ updated_component = FALSE
  /\ updated_requirement = FALSE
  /\ staged_files = {}
  /\ pc = "init_project"
  /\ table_files \in InitDirectories
  /\ last = Last("start", "project", "ok", NoId)

\* main: if reqtsv.init { init_project(&project_root)? }
run_init_project ==
  /\ pc = "init_project"
  /\ \E fail \in InitFailPoints :
       LET out == init_project_on(table_files, fail) IN
       /\ table_files' = out.files
       /\ last' = Last("init_project", "project", out.res, NoId)
       /\ UNCHANGED <<components, requirements, updated_component,
                      updated_requirement, staged_files, pc>>

InitProjectSpec == InitProjectInit /\ [][run_init_project]_vars

----------------------------------------------------------------------------
(* Draft and edit documents: fmt_as_draft, fmt_as_edit, toml::from_str *)

\* A document is a function from its TOML keys to the strings written for
\* them: text is what stands between the quotes, triple tells whether the
\* quotes are triple quotes. A placeholder text is one element per line.
Basic(text) == [triple |-> FALSE, text |-> text]

MultiLine(text) == [triple |-> TRUE, text |-> text]

\* strum's Display of RequirementFunctional
fmt_functional(functional) ==
  IF functional = "NonFunctional" THEN <<"Non-Functional">> ELSE <<"Functional">>

\* Display of RequirementPriority: the variant name
fmt_priority(priority) == <<priority>>

\* fmt_as_edit for a multi-line field: a text with an escaped line break is
\* split at the escapes and written line by line (writeln!) in triple quotes
fmt_multiline(text) ==
  IF replace(text, <<BACKSLASH, "n">>, <<LF>>) # text
  THEN MultiLine(replace(text, <<BACKSLASH, "n">>, <<LF>>) \o <<LF>>)
  ELSE Basic(text)

\* ComponentEdit::fmt_as_draft / RequirementEdit::fmt_as_draft
fmt_as_draft(kind) ==
  IF kind = "component"
  THEN ("name" :> Basic(<<"type name here">>))
       @@ ("desciption" :> MultiLine(<<"write description here", LF,
                                        "use more than one line if you want">>))
       @@ ("author" :> Basic(<<"author name here">>))
  ELSE ("title" :> Basic(<<"type title here">>))
       @@ ("functional" :> Basic(<<>>))
       @@ ("requirement_text" :> MultiLine(<<"write requirement here", LF,
                                              "use more than one line if you want">>))
       @@ ("author" :> Basic(<<"type author name here">>))
       @@ ("priority" :> Basic(<<>>))
       @@ ("risks" :> MultiLine(<<"write risks here", LF,
                                   "use more than one line if you want">>))

\* Component::fmt_as_edit / Requirement::fmt_as_edit
fmt_as_edit(kind, self) ==
  IF kind = "component"
  THEN ("name" :> Basic(self.name))
       @@ ("desciption" :> fmt_multiline(self.description))
       @@ ("author" :> Basic(self.author))
  ELSE ("title" :> Basic(self.title))
       @@ ("functional" :> Basic(fmt_functional(self.functional)))
       @@ ("requirement_text" :> fmt_multiline(self.requirement_text))
       @@ ("author" :> Basic(self.author))
       @@ ("priority" :> Basic(fmt_priority(self.priority)))
       @@ ("risks" :> fmt_multiline(self.risks))

\* the fields of ComponentTomlDraft / ComponentEdit and of RequirementEdit:
\* the keys toml::from_str requires
EditFileFields(kind) ==
  IF kind = "component" THEN {"name", "description", "author"}
  ELSE {"functional", "title", "requirement_text", "author", "priority", "status", "risks"}

\* the variant names serde accepts for the fields that are enums
EnumVariants(field) ==
  IF field = "functional" THEN RequirementFunctional
  ELSE IF field = "priority" THEN RequirementPriority
  ELSE RecordStatus

TomlErr == [err |-> "Toml"]

\* the value of a TOML string: a basic string holds no raw line break and no
\* quote; a line break right after the opening triple quotes is trimmed
toml_string(entry) ==
  IF entry.triple
  THEN IF entry.text # <<>> /\ Head(entry.text) = LF THEN Tail(entry.text)
       ELSE entry.text
  ELSE IF contains_any({LF, CR, "\""}, entry.text) THEN TomlErr
  ELSE entry.text

\* toml::from_str::<EF>(buf): every field of EF needs its key, a key that is
\* no field is skipped, an enum field needs the name of a variant
from_str(kind, doc) ==
  IF ~(EditFileFields(kind) \subseteq DOMAIN doc) THEN TomlErr
  ELSE IF \E f \in EditFileFields(kind) : IsErr(toml_string(doc[f])) THEN TomlErr
  ELSE IF \E f \in EditFileFields(kind) \cap {"functional", "priority", "status"} :
            \A v \in EnumVariants(f) : toml_string(doc[f]) # <<v>>
  THEN TomlErr
  ELSE [f \in EditFileFields(kind) |->
          IF f \in {"functional", "priority", "status"} THEN toml_string(doc[f])[1]
          ELSE toml_string(doc[f])]

\* open_edit_file::<EF>(entry) / open_component_draft(entry), from the bytes
\* of the document on: parse, then sanitize
open_edit_file(kind, doc, is_draft) ==
  LET edit == from_str(kind, doc) IN
  IF IsErr(edit) THEN edit
  ELSE IF kind = "component" /\ is_draft THEN sanitize_component_draft(edit)
  ELSE EditFile_sanitize(kind, edit)

\* the records an edit document is made for: one table row per run
DocComponents ==
  {Component(0, <<"a">>, d, 1, "Accepted", a) :
     d \in {<<"d">>, <<"d", BACKSLASH, "n", "e">>, <<BACKSLASH, "n", "d">>},
     a \in {<<"x">>, <<"y">>}}

DocRequirements ==
  {Requirement(0, 0, <<"t">>, f, 1, r, 0, <<"x">>, p, "Accepted", k) :
     f \in RequirementFunctional,
     r \in {<<"r">>, <<"r", BACKSLASH, "n", "s">>},
     p \in {"High", "Low"},
     k \in {<<"k">>, <<"k", BACKSLASH, "n">>}}

\* the last document operation: the document written, or what was read back
DocLast(op, kind, res, id, doc) ==
  [op |-> op, kind |-> kind, res |-> res, id |-> id, doc |-> doc]

DocReturn(l) ==
  /\ last' = l
  /\ UNCHANGED <<components, requirements, updated_component, updated_requirement,
                 table_files, staged_files, pc>>

\* one record in one of the tables, and no document yet
DocInit ==
  /\ updated_component = FALSE
  /\ updated_requirement = FALSE
  /\ staged_files = {}
  /\ table_files = init_project
  /\ \/ /\ pc = "component_menu"
        /\ \E c \in DocComponents : components = <<c>>
        /\ requirements = <<>>
        /\ last = DocLast("start", "component", "ok", NoId, <<>>)
     \/ /\ pc = "requirement_menu"
        /\ components = <<>>
        /\ \E r \in DocRequirements : requirements = <<r>>
        /\ last = DocLast("start", "requirement", "ok", NoId, <<>>)

\* create_draft_file::<EF>: the document fmt_as_draft writes
write_draft_document(kind) ==
  /\ pc = menu(kind)
  /\ DocReturn(DocLast("new_draft", kind, "ok", NoId, fmt_as_draft(kind)))

\* create_edit_file::<R>: the document fmt_as_edit writes for the record
write_edit_document(kind) ==
  /\ pc = menu(kind)
  /\ \E id \in IdInputs :
       LET at == ref_record_by_id(get_tbl(kind), id) IN
       IF at = NotFound THEN DocReturn(DocLast("edit", kind, "not_found", id, <<>>))
       ELSE DocReturn(DocLast("edit", kind, "ok", id, fmt_as_edit(kind, get_tbl(kind)[at])))

\* the document that was just written is read back as it is
open_document(kind) ==
  /\ pc = menu(kind)
  /\ last.kind = kind
  /\ last.op \in {"new_draft", "edit"}
  /\ last.res = "ok"
  /\ LET edit == open_edit_file(kind, last.doc, last.op = "new_draft")
         op == IF last.op = "edit" THEN "open_edit" ELSE "open_draft"
     IN DocReturn(DocLast(op, kind, IF IsErr(edit) THEN "bad_doc" ELSE "ok",
                          last.id, edit))

DocNext ==
  \/ \E kind \in Kinds : write_draft_document(kind)
  \/ \E kind \in Kinds : write_edit_document(kind)
  \/ \E kind \in Kinds : open_document(kind)

DocSpec == DocInit /\ [][DocNext]_vars

----------------------------------------------------------------------------
(* The bytes of a table file: csv::Writer in wrtie_table, csv::Reader in main *)

QUOTE == "\""

NumberFields == {"id", "component_id", "creation_date", "version"}

EnumFields == {"status", "functional", "priority"}

\* a cell written with the quotes doubled but not put between quotes
csv_field_unquoted(text) == replace(text, <<QUOTE>>, <<QUOTE, QUOTE>>)

\* csv::Writer, QuoteStyle::Necessary: a cell that holds the delimiter, a
\* quote or a line break is put between quotes, its quotes doubled
csv_field(text) ==
  IF contains_any({TAB, QUOTE, LF, CR}, text)
  THEN <<QUOTE>> \o replace(text, <<QUOTE>>, <<QUOTE, QUOTE>>) \o <<QUOTE>>
  ELSE text

\* one line: the cells, COLUMN_DELIMITER between them, RECORD_DELIMITER last
RECURSIVE csv_record(_)
csv_record(cells) ==
  IF Len(cells) = 1 THEN csv_field(cells[1]) \o <<LF>>
  ELSE csv_field(Head(cells)) \o <<TAB>> \o csv_record(Tail(cells))

\* serde's text of a field: Display of an integer (an ordinal stands for the
\* time stamp), the variant name of an enum, the string itself
field_text(self, f) ==
  IF f \in NumberFields THEN fmt_u64(self[f])
  ELSE IF f \in EnumFields THEN <<self[f]>>
  ELSE self[f]

\* wtr.serialize(record) for every record: the header before the first one
RECURSIVE csv_rows(_, _)
csv_rows(kind, records) ==
  IF records = <<>> THEN <<>>
  ELSE csv_record([i \in 1..Len(serde_header(kind)) |->
                     field_text(Head(records), serde_header(kind)[i])])
         \o csv_rows(kind, Tail(records))

serialize_table(kind, records) ==
  IF records = <<>> THEN <<>>
  ELSE csv_record([i \in 1..Len(serde_header(kind)) |-> <<serde_header(kind)[i]>>])
         \o csv_rows(kind, records)

\* csv::Reader, one cell from position i: a quote at the start of a cell
\* opens a quoted cell, a doubled quote in it is one quote; the cell ends at
\* the delimiter, at the terminator or with the bytes
RECURSIVE csv_read_cell(_, _, _, _)
csv_read_cell(bytes, i, quoted, cell) ==
  IF i > Len(bytes) THEN [cell |-> cell, next |-> i, end |-> "eof"]
  ELSE IF quoted
  THEN IF bytes[i] = QUOTE
       THEN IF i < Len(bytes) /\ bytes[i + 1] = QUOTE
            THEN csv_read_cell(bytes, i + 2, TRUE, Append(cell, QUOTE))
            ELSE csv_read_cell(bytes, i + 1, FALSE, cell)
       ELSE csv_read_cell(bytes, i + 1, TRUE, Append(cell, bytes[i]))
  ELSE IF bytes[i] = QUOTE /\ cell = <<>> THEN csv_read_cell(bytes, i + 1, TRUE, cell)
  ELSE IF bytes[i] = TAB THEN [cell |-> cell, next |-> i + 1, end |-> "tab"]
  ELSE IF bytes[i] = LF THEN [cell |-> cell, next |-> i + 1, end |-> "lf"]
  ELSE csv_read_cell(bytes, i + 1, FALSE, Append(cell, bytes[i]))

\* csv::Reader, one line from position i: its cells
RECURSIVE csv_read_line(_, _, _)
csv_read_line(bytes, i, cells) ==
  LET r == csv_read_cell(bytes, i, FALSE, <<>>)
  IN IF r.end = "tab" THEN csv_read_line(bytes, r.next, Append(cells, r.cell))
     ELSE [cells |-> Append(cells, r.cell), next |-> r.next]

\* csv::Reader over the bytes from position i: the lines and their cells
RECURSIVE csv_read(_, _, _)
csv_read(bytes, i, lines) ==
  IF i > Len(bytes) THEN lines
  ELSE LET r == csv_read_line(bytes, i, <<>>)
       IN csv_read(bytes, r.next, Append(lines, r.cells))

\* whether serde accepts a cell for the field f: a number for an integer,
\* the name of a variant for an enum, any string for a String
field_ok(f, text) ==
  IF f \in NumberFields THEN parse_u64(text) # ParseErr
  ELSE IF f \in EnumFields THEN Len(text) = 1 /\ text[1] \in EnumVariants(f)
  ELSE TRUE

\* serde's value of an accepted cell for the field f
field_value(f, text) ==
  IF f \in NumberFields THEN parse_u64(text)
  ELSE IF f \in EnumFields THEN text[1]
  ELSE text

\* the column of the header line that is named f, NotFound without one
column_of(header, f) == FirstPos({i \in 1..Len(header) : header[i] = <<f>>})

\* the lines of a table file that hold records: all but the header line
record_lines(bytes) ==
  LET lines == csv_read(bytes, 1, <<>>)
  IN IF lines = <<>> THEN <<>> ELSE Tail(lines)

header_line(bytes) == csv_read(bytes, 1, <<>>)[1]

FieldNames(kind) == {serde_header(kind)[i] : i \in 1..Len(serde_header(kind))}

\* "corrupt table entry": a line that deserialize::<R>() refuses, for its
\* number of cells, a field the header does not name, or a cell's text
corrupt_table_entry(kind, bytes) ==
  \E k \in 1..Len(record_lines(bytes)) :
    LET line == record_lines(bytes)[k]
        header == header_line(bytes)
    IN \/ Len(line) # Len(header)
       \/ \E f \in FieldNames(kind) :
            \/ column_of(header, f) = NotFound
            \/ ~field_ok(f, line[column_of(header, f)])

\* tsv_reader.deserialize::<R>() collected into the table: the first line is
\* the header, the cells of each other line are matched to the fields by the
\* header's names
deserialize_table(kind, bytes) ==
  [k \in 1..Len(record_lines(bytes)) |->
     [f \in FieldNames(kind) |->
        field_value(f, record_lines(bytes)[k][column_of(header_line(bytes), f)])]]

\* valid tables: no raw tab and no raw line break in a field; quotes, spaces,
\* escaped line breaks and empty strings are allowed
CodecComponents ==
  {Component(i, n, d, 12, st, <<"x">>) :
     i \in {0, 10},
     n \in {<<"a">>, <<"a", QUOTE>>, <<QUOTE, "a", " ", QUOTE>>},
     d \in {<<>>, <<"d", BACKSLASH, "n", "e">>},
     st \in {"Accepted", "Deleted"}}

CodecRequirements ==
  {Requirement(1, 7, t, f, 3, r, 2, <<"x">>, "Med", "Accepted", k) :
     t \in {<<"t">>, <<QUOTE, QUOTE>>},
     f \in RequirementFunctional,
     r \in {<<"r", " ">>, <<"r", BACKSLASH, "n", QUOTE>>},
     k \in {<<>>, <<"k">>}}

CodecTables(kind) ==
  LET recs == IF kind = "component" THEN CodecComponents ELSE CodecRequirements
      first == IF kind = "component"
               THEN Component(0, <<"b">>, <<"d">>, 1, "Accepted", <<"y", QUOTE>>)
               ELSE Requirement(0, 0, <<"u">>, "Functional", 1, <<"s">>, 0, <<"y">>,
                                "Low", "Deleted", <<QUOTE>>)
  IN {<<>>} \cup {<<r>> : r \in recs} \cup {<<first, r>> : r \in recs}

\* a table file as its bytes
Bytes(bytes) == [exists |-> TRUE, bytes |-> bytes]

CodecLast(op, kind, res, before) ==
  [op |-> op, kind |-> kind, res |-> res, id |-> NoId, before |-> before]

\* a session with a valid table in memory, and its table file still empty
CodecInit ==
  /\ updated_component = FALSE
  /\ updated_requirement = FALSE
  /\ staged_files = {}
  /\ \E kind \in Kinds :
       /\ pc = menu(kind)
       /\ components \in (IF kind = "component" THEN CodecTables(kind) ELSE {<<>>})
       /\ requirements \in (IF kind = "requirement" THEN CodecTables(kind) ELSE {<<>>})
       /\ table_files = [p \in {current_path(kind)} |-> Bytes(<<>>)]
       /\ last = CodecLast("start", kind, "ok", <<>>)

\* wrtie_table without a failure, and the renames at shutdown: the bytes of
\* the table reach the table file
save_table(kind) ==
  /\ pc = menu(kind)
  /\ last.kind = kind
  /\ table_files' = [table_files EXCEPT ![current_path(kind)] =
                       Bytes(serialize_table(kind, get_tbl(kind)))]
  /\ pc' = "done"
  /\ last' = CodecLast("save", kind, "ok", get_tbl(kind))
  /\ UNCHANGED <<components, requirements, updated_component, updated_requirement,
                 staged_files>>

\* main of the next run: load_table and the deserialize loop
load_table(kind) ==
  /\ pc = "done"
  /\ last.kind = kind
  /\ LET bytes == table_files[current_path(kind)].bytes IN
     /\ IF corrupt_table_entry(kind, bytes)
        THEN /\ UNCHANGED <<components, requirements>>
             /\ last' = CodecLast("load", kind, "corrupt", last.before)
        ELSE /\ set_tbl(kind, deserialize_table(kind, bytes))
             /\ last' = CodecLast("load", kind, "ok", last.before)
     /\ pc' = menu(kind)
  /\ UNCHANGED <<updated_component, updated_requirement, table_files, staged_files>>

CodecNext ==
  \/ \E kind \in Kinds : save_table(kind)
  \/ \E kind \in Kinds : load_table(kind)

CodecSpec == CodecInit /\ [][CodecNext]_vars

----------------------------------------------------------------------------
(* get_rand_file: the retry loop, one open per step (lib.rs:628-670) *)

\* open_opts.open(&new_path) that takes whatever is at the path
open_create(path, files) == "Ok"

\* open_opts.open(&new_path) with create_new(true)
open_create_new(path, files) == IF path \in files THEN "AlreadyExists" ELSE "Ok"

\* the names an iteration of the loop can draw for the prefix
RandNames(prefix) == {StagedFile(prefix, <<"-">> \o sfx) : sfx \in RandSuffixes}

\* the loop's position: the names drawn so far and the documents that were
\* in the project root when create_draft_file was called
RandLast(op, kind, res, tried, before) ==
  [op |-> op, kind |-> kind, res |-> res, id |-> NoId, tried |-> tried, before |-> before]

\* create_draft_file is called in a project root that holds any of the
\* documents a draft can be named like
RandFileInit ==
  /\ components = <<>>
  /\ requirements = <<>>
  /\ updated_component = FALSE
  /\ updated_requirement = FALSE
  /\ table_files = init_project
  /\ pc = "get_rand_file"
  /\ \E kind \in Kinds :
       /\ staged_files \in SUBSET RandNames(draft_prefix(kind))
       /\ last = RandLast("new_draft", kind, "running", <<>>, staged_files)

\* one iteration of for _ in 0..NUM_RETRIES: a name is drawn and opened; the
\* loop goes on only after AlreadyExists.  After Ok create_draft_file writes
\* the draft to the new file.
get_rand_file_attempt ==
  /\ pc = "get_rand_file"
  /\ Len(last.tried) < MaxRetries
  /\ \E file \in RandNames(draft_prefix(last.kind)) :
       LET L(res, open_attempt) ==
             RandLast("new_draft", last.kind, res,
                      Append(last.tried, [file |-> file, open_attempt |-> open_attempt]),
                      last.before)
       IN \/ /\ open_create_new(file, staged_files) = "AlreadyExists"
             /\ last' = L("running", "AlreadyExists")
             /\ UNCHANGED <<staged_files, pc>>
          \/ /\ open_create_new(file, staged_files) = "Ok"
             /\ staged_files' = staged_files \cup {file}
             /\ \E write_ok \in BOOLEAN :
                  last' = L(IF write_ok THEN "ok" ELSE "write_failed", "Ok")
             /\ pc' = "done"
          \/ /\ last' = L("io", "Err")        \* Err(e) => return Err(Some(e))
             /\ pc' = "done"
             /\ UNCHANGED staged_files
  /\ UNCHANGED <<components, requirements, updated_component, updated_requirement,
                 table_files>>

\* the loop ran out: Err(None), "somehow ran in to name conflicts ..."
get_rand_file_exhausted ==
  /\ pc = "get_rand_file"
  /\ Len(last.tried) = MaxRetries
  /\ last' = [last EXCEPT !.res = "exhausted"]
  /\ pc' = "done"
  /\ UNCHANGED <<components, requirements, updated_component, updated_requirement,
                 table_files, staged_files>>

RandFileNext ==
  \/ get_rand_file_attempt
  \/ get_rand_file_exhausted

\* the loop is straight-line code: an iteration that can run does run
RandFileSpec == RandFileInit /\ [][RandFileNext]_vars /\ WF_vars(RandFileNext)

----------------------------------------------------------------------------
(* Two runs of main() on one project root, no lock between them *)

Procs == {1, 2}

\* the component each run inserts
ProcName(p) == IF p = 1 THEN <<"a">> ELSE <<"b">>

\* an insert that reads the table file again before it appends
table_reloaded(p, files) == files[COMPONENT_TABLE_NAME].rows

\* the table an insert of run p appends to: ctx.components, as loaded at the
\* start of the run
table_in_memory(p, files) == components[p]

ProcLast(op, p, res, loaded) ==
  [op |-> op, kind |-> "component", res |-> res, id |-> p, loaded |-> loaded]

ProcInit ==
  /\ components = [p \in Procs |-> <<>>]
  /\ requirements = <<>>
  /\ updated_component = [p \in Procs |-> FALSE]
  /\ updated_requirement = FALSE
  /\ table_files = init_project
  /\ staged_files = {}
  /\ pc = [p \in Procs |-> "start"]
  /\ last = ProcLast("start", 0, "ok", [p \in Procs |-> -1])

ProcStep(p, files, next, op, res) ==
  /\ table_files' = files
  /\ pc' = [pc EXCEPT ![p] = next]
  /\ last' = ProcLast(op, p, res, last.loaded)
  /\ UNCHANGED <<components, requirements, updated_component, updated_requirement,
                 staged_files>>

\* main() up to the menu loop: load_table opens component.tsv with
\* create(false) and the rows are deserialized
proc_load(p) ==
  /\ pc[p] = "start"
  /\ IF table_files[COMPONENT_TABLE_NAME].exists
     THEN /\ components' = [components EXCEPT ![p] = table_files[COMPONENT_TABLE_NAME].rows]
          /\ pc' = [pc EXCEPT ![p] = "menu"]
          /\ last' = ProcLast("load", p, "ok",
                              [last.loaded EXCEPT ![p] = Len(components'[p])])
     ELSE /\ pc' = [pc EXCEPT ![p] = "failed"]
          /\ last' = ProcLast("load", p, "io", last.loaded)
          /\ UNCHANGED components
  /\ UNCHANGED <<requirements, updated_component, updated_requirement, table_files,
                 staged_files>>

\* insert_component_draft of run p, every step of it succeeding: the record
\* is appended and write_components writes the table to component.new.tsv
proc_insert(p) ==
  /\ pc[p] = "menu"
  /\ ~updated_component[p]
  /\ LET records == table_in_memory(p, table_files)
         tbl == Append(records, Component(max_id(records), ProcName(p), <<"d">>,
                                          Local_now(records), "Accepted", <<"x">>))
     IN /\ components' = [components EXCEPT ![p] = tbl]
        /\ table_files' = wrtie_table(table_files, "component", tbl, "none", 0)
        /\ updated_component' = [updated_component EXCEPT ![p] = TRUE]
        /\ last' = ProcLast("insert", p, "ok", last.loaded)
  /\ UNCHANGED <<requirements, updated_requirement, staged_files, pc>>

\* main_menu_loop returns
proc_exit(p) ==
  /\ pc[p] = "menu"
  /\ ProcStep(p, table_files, IF updated_component[p] THEN "comp_rename_old" ELSE "done",
              "exit", "ok")

\* rename(&comp_current, &comp_old)?
proc_rename_old(p) ==
  /\ pc[p] = "comp_rename_old"
  /\ IF rename_ok(table_files, current_path("component"), TRUE)
     THEN ProcStep(p, rename(table_files, current_path("component"), old_path("component")),
                   "comp_rename_new", "comp_rename_old", "ok")
     ELSE ProcStep(p, table_files, "failed", "comp_rename_old", "io")

\* rename(&comp_new, &comp_current)?
proc_rename_new(p) ==
  /\ pc[p] = "comp_rename_new"
  /\ IF rename_ok(table_files, new_path("component"), TRUE)
     THEN ProcStep(p, rename(table_files, new_path("component"), current_path("component")),
                   "comp_remove_old", "comp_rename_new", "ok")
     ELSE ProcStep(p, table_files, "failed", "comp_rename_new", "io")

\* std::fs::remove_file(&comp_old)?, then Ok(())
proc_remove_old(p) ==
  /\ pc[p] = "comp_remove_old"
  /\ IF remove_file_ok(table_files, old_path("component"), TRUE)
     THEN ProcStep(p, remove_file(table_files, old_path("component")), "done",
                   "comp_remove_old", "ok")
     ELSE ProcStep(p, table_files, "failed", "comp_remove_old", "io")

ProcNext ==
  \E p \in Procs :
    \/ proc_load(p)
    \/ proc_insert(p)
    \/ proc_exit(p)
    \/ proc_rename_old(p)
    \/ proc_rename_new(p)
    \/ proc_remove_old(p)

ProcSpec == ProcInit /\ [][ProcNext]_vars

----------------------------------------------------------------------------
(* The shutdown of a session that wrote to any of the two tables *)

\* a table file an earlier write left behind
StaleFile(kind) == FileContent(serde_header(kind), <<>>, FALSE)

\* main() after main_menu_loop returned: each table was written or not, its
\* .new file is there when it was, and an .old file can be left from an
\* earlier run that stopped before remove_file
ShutdownInit ==
  /\ components \in {<<Component(0, <<"a">>, <<"d">>, 1, "Accepted", <<"x">>)>>,
                     ImportedComponentTable}
  /\ requirements = <<Requirement(0, 0, <<"t">>, "Functional", 1, <<"r">>, 0, <<"x">>,
                                   "High", "Accepted", <<"k">>)>>
  /\ updated_component \in BOOLEAN
  /\ updated_requirement \in BOOLEAN
  /\ staged_files = {}
  /\ \E stale \in SUBSET Kinds :
       table_files =
         [p \in TablePaths |->
            IF \E kind \in Kinds : p = new_path(kind) /\ updated(kind)
            THEN LET kind == CHOOSE k \in Kinds : p = new_path(k)
                 IN FileContent(serde_header(kind), get_tbl(kind), TRUE)
            ELSE IF \E kind \in stale : p = old_path(kind)
            THEN LET kind == CHOOSE k \in Kinds : p = old_path(k) IN StaleFile(kind)
            ELSE init_project[p]]
  /\ pc = after_menu
  /\ last = Last("exit", "requirement", "ok", NoId)

ShutdownNext ==
  \/ req_rename_old
  \/ req_rename_new
  \/ req_remove_old
  \/ comp_rename_old
  \/ comp_rename_new
  \/ comp_remove_old

ShutdownSpec == ShutdownInit /\ [][ShutdownNext]_vars

----------------------------------------------------------------------------
(* A requirement session on a component table with records of every status *)

\* a component table as component.tsv can hold it: the loader takes every
\* row that deserializes, whatever its status
MixedComponentTable ==
  <<Component(0, <<"a">>, <<"d">>, 1, "Accepted", <<"x">>),
    Component(1, <<"b">>, <<"d">>, 2, "Deleted", <<"x">>),
    Component(2, <<"c">>, <<"d">>, 3, "Draft", <<"x">>),
    Component(3, <<"e">>, <<"d">>, 4, "Accepted", <<"x">>)>>

MixedInit ==
  /\ components = MixedComponentTable
  /\ requirements = <<>>
  /\ updated_component = FALSE
  /\ updated_requirement = FALSE
  /\ staged_files = {}
  /\ table_files = [init_project EXCEPT ![COMPONENT_TABLE_NAME] =
                      FileContent(ComponentFields, components, TRUE)]
  /\ pc = "requirement_menu"
  /\ last = Last("start", "requirement", "ok", NoId)

MixedNext ==
  \/ insert_requirement_draft
  \/ change_component

MixedSpec == MixedInit /\ [][MixedNext]_vars

----------------------------------------------------------------------------
(* reqtsv-html-compiler: the component of a requirement (lib.rs:392-415) *)

\* components.get(id as usize) alone, as AppCtx::get_component_by_id reads it
find_component_by_index(id, comps) ==
  IF id + 1 <= Len(comps) THEN id + 1 ELSE NotFound

\* find_component_by_id: the position of the component it returns, NotFound
\* for None.  The component at index id is taken when its id is id, else the
\* first component with that id.
find_component_by_id(id, comps) ==
  IF id + 1 <= Len(comps) /\ comps[id + 1].id = id THEN id + 1
  ELSE FirstPos({i \in 1..Len(comps) : comps[i].id = id})

\* OpCompNameRender::render_to
OpCompNameRender(op_component, comps) ==
  IF op_component = NotFound THEN <<"N", "o", "t", " ", "F", "o", "u", "n", "d">>
  ELSE fmt_u64(comps[op_component].id) \o <<" ", "-", " ">> \o comps[op_component].name

\* component lists of up to three components, in every order, ids repeated
\* or missing; the name tells the components of a list apart
CompilerComponents ==
  UNION {[1..n -> {Component(id, <<name>>, <<"d">>, 1, "Accepted", <<"x">>) :
                     id \in {0, 1, 2}, name \in {"a", "b"}}] : n \in 0..3}

FindLast(op, id, found, text) ==
  [op |-> op, kind |-> "requirement", res |-> "ok", id |-> id, found |-> found,
   text |-> text]

CompilerInit ==
  /\ components \in CompilerComponents
  /\ requirements = <<>>
  /\ updated_component = FALSE
  /\ updated_requirement = FALSE
  /\ staged_files = {}
  /\ table_files = init_project
  /\ pc = "build_all_requirements"
  /\ last = FindLast("start", NoId, NotFound, <<>>)

\* build_all_requirements, for one requirement: its component is looked up
\* by requirement.component_id and rendered
render_requirement ==
  /\ pc = "build_all_requirements"
  /\ \E component_id \in 0..3 :
       LET op_component == find_component_by_id(component_id, components)
       IN last' = FindLast("find", component_id, op_component,
                           OpCompNameRender(op_component, components))
  /\ UNCHANGED <<components, requirements, updated_component, updated_requirement,
                 table_files, staged_files, pc>>

CompilerSpec == CompilerInit /\ [][render_requirement]_vars

----------------------------------------------------------------------------
(* Properties of the record store *)

\* the table of a kind after the step
tbl_next(kind) == IF kind = "component" THEN components' ELSE requirements'

Positions(records) == 1..Len(records)

UniqueIds(records) ==
  \A i, j \in Positions(records) : i # j => records[i].id # records[j].id

\* the identity fields of a record equal those of a document: the name of a
\* component; the title or the requirement text of a requirement
SameIdentity(kind, rec, fields) ==
  IF kind = "component" THEN rec.name = fields.name
  ELSE rec.title = fields.title \/ rec.requirement_text = fields.requirement_text

HasId(records, id) == \E i \in Positions(records) : records[i].id = id

\* C1: after any sequence of insert, update and delete operations that
\* starts from a header-only table, no two records of the table have the
\* same id.  (The requirement table always starts header-only, the component
\* table does in a session of the component menu.)
C1_ids_unique ==
  /\ UniqueIds(requirements)
  /\ last.kind = "component" => UniqueIds(components)

\* C2: Deleted is terminal: a record whose status is Deleted has status
\* Deleted after every step, whichever operation the step is.
C2_deleted_is_terminal ==
  [][\A kind \in Kinds : \A i \in Positions(get_tbl(kind)) :
       get_tbl(kind)[i].status = "Deleted" => tbl_next(kind)[i].status = "Deleted"]_vars

\* C3: when insert, update or delete returns success, a completely written
\* file of the table on disk (the table file, or the new file written to
\* replace it) holds the table with the mutation; and when the write of the
\* table fails, the table in memory is what it was before the operation.
C3_persist_before_success ==
  [][last'.op \in {"insert", "update", "delete"} =>
       /\ last'.res = "ok" =>
            \E p \in {current_path(last'.kind), new_path(last'.kind)} :
              /\ table_files'[p].complete
              /\ table_files'[p].rows = tbl_next(last'.kind)
       /\ (last'.res = "io" /\ last'.id # NoId) =>
            tbl_next(last'.kind) = get_tbl(last'.kind)]_vars

\* C4: the table file is never replaced by a partially written file: at
\* every moment of a session each table file that exists is a completely
\* written and synced encoding of a whole table.
C4_table_file_complete ==
  \A kind \in Kinds :
    table_files[current_path(kind)].exists => table_files[current_path(kind)].complete

\* C5: an insert whose draft passed the sanitizer and whose identity fields
\* equal those of an existing record (component: name; requirement: title or
\* requirement text), whatever that record's status, returns the conflict
\* error and leaves the table as it was.
C5_insert_conflict ==
  [][/\ \A raw \in ComponentDocInputs :
          (/\ pc = "component_menu"
           /\ last'.op = "insert"
           /\ ~IsErr(sanitize_component_draft(raw))
           /\ \E i \in Positions(components) :
                SameIdentity("component", components[i], raw)
           /\ insert_component(raw))
          => (last'.res = "conflict" /\ components' = components)
     /\ \A component_id \in accepted_components, raw \in RequirementDocInputs :
          (/\ pc = "requirement_menu"
           /\ last'.op = "insert"
           /\ ~IsErr(RequirementEdit_sanitize(raw))
           /\ \E i \in Positions(requirements) :
                SameIdentity("requirement", requirements[i], raw)
           /\ insert_requirement(component_id, raw))
          => (last'.res = "conflict" /\ requirements' = requirements)]_vars

\* an insert returned the conflict error on a table whose records are all
\* Deleted
C5_conflict_with_deleted ==
  /\ last.op = "insert"
  /\ last.res = "conflict"
  /\ get_tbl(last.kind) # <<>>
  /\ \A i \in Positions(get_tbl(last.kind)) : get_tbl(last.kind)[i].status = "Deleted"

\* C6: after a successful insert, a lookup by the id the insert assigned
\* (mut_record_by_id and ref_record_by_id) returns the record just inserted,
\* and its status is Accepted.
C6_insert_then_lookup ==
  (last.op = "insert" /\ last.res = "ok") =>
    LET tbl == get_tbl(last.kind)
        inserted == tbl[Len(tbl)]
    IN \A at \in {mut_record_by_id(tbl, last.id), ref_record_by_id(tbl, last.id)} :
         /\ at # NotFound
         /\ tbl[at] = inserted
         /\ tbl[at].status = "Accepted"

\* C7: a lookup by id (mut_record_by_id on either table, get_component_by_id)
\* returns a record with the requested id whenever a record has it, and
\* not-found exactly when no record has it.
C7_lookup_by_id ==
  \A id \in IdInputs :
    /\ \A kind \in Kinds :
         LET tbl == get_tbl(kind)
             at == mut_record_by_id(tbl, id)
         IN IF HasId(tbl, id) THEN at # NotFound /\ tbl[at].id = id
            ELSE at = NotFound
    /\ LET at == get_component_by_id(id)
       IN IF HasId(components, id) THEN at # NotFound /\ components[at].id = id
          ELSE at = NotFound

\* C8: an update whose id no record of the table has (its edit document
\* passing the sanitizer and conflicting with no record, so that the lookup
\* is reached) returns the not-found error and modifies no record.
C8_update_not_found ==
  [][\A kind \in Kinds, id \in IdInputs : \A raw \in EditDocInputs(kind) :
       (/\ pc = menu(kind)
        /\ update(kind, id, raw)
        /\ ~IsErr(EditFile_sanitize(kind, raw))
        /\ \A j \in Positions(get_tbl(kind)) : ~SameIdentity(kind, get_tbl(kind)[j], raw)
        /\ ~HasId(get_tbl(kind), id))
       => (last'.res = "not_found" /\ tbl_next(kind) = get_tbl(kind))]_vars

\* C9: an update whose edited identity fields equal those of a record other
\* than the one record being updated returns the conflict error and applies
\* no mutation.
C9_update_conflict ==
  [][\A kind \in Kinds, id \in IdInputs : \A raw \in EditDocInputs(kind) :
       (/\ pc = menu(kind)
        /\ update(kind, id, raw)
        /\ ~IsErr(EditFile_sanitize(kind, raw))
        /\ \E j \in Positions(get_tbl(kind)) :
             /\ j # find_in_db(get_tbl(kind), id)
             /\ SameIdentity(kind, get_tbl(kind)[j], raw))
       => (last'.res = "conflict" /\ tbl_next(kind) = get_tbl(kind))]_vars

\* the editable fields of a record are those of the edit document
EditedFieldsSet(kind, rec, ef) ==
  IF kind = "component"
  THEN rec.name = ef.name /\ rec.description = ef.description /\ rec.author = ef.author
  ELSE /\ rec.functional = ef.functional
       /\ rec.title = ef.title
       /\ rec.requirement_text = ef.requirement_text
       /\ rec.author = ef.author
       /\ rec.priority = ef.priority
       /\ rec.risks = ef.risks

\* C10: a successful update(id, edit) sets the editable fields of the record
\* with that id to the edited values and its status to Accepted, leaves its
\* id, its creation_date and the number of records as they were, and
\* modifies no other record.
C10_update_frame ==
  [][\A kind \in Kinds, id \in IdInputs : \A raw \in EditDocInputs(kind) :
       (pc = menu(kind) /\ update(kind, id, raw) /\ last'.res = "ok") =>
         LET before == get_tbl(kind)
             after == tbl_next(kind)
         IN /\ Len(after) = Len(before)
            /\ \E at \in Positions(before) :
                 /\ before[at].id = id
                 /\ EditedFieldsSet(kind, after[at], EditFile_sanitize(kind, raw))
                 /\ after[at].status = "Accepted"
                 /\ after[at].id = before[at].id
                 /\ after[at].creation_date = before[at].creation_date
                 /\ \A j \in Positions(before) \ {at} : after[j] = before[j]]_vars

\* C11: a requirement's version is 0 when the record is inserted and counts the
\* accepted edits of the record: the version of a record in the table changes
\* only in an update that completed and persisted, which raises the version of
\* exactly the record whose id was given by exactly one.
C11_version_counts_edits ==
  [][/\ Len(requirements') > Len(requirements)
          => requirements'[Len(requirements')].version = 0
     /\ \A i \in Positions(requirements) :
          requirements'[i].version # requirements[i].version
            => /\ last' = Last("update", "requirement", "ok", requirements[i].id)
               /\ requirements'[i].version = requirements[i].version + 1
     /\ (last'.op = "update" /\ last'.kind = "requirement" /\ last'.res = "ok")
          => \E i \in Positions(requirements) :
               /\ requirements[i].id = last'.id
               /\ requirements'[i].version = requirements[i].version + 1]_vars

\* C12: a successful delete(id) changes exactly one thing: the status of the
\* record whose id is id becomes Deleted; every other field of that record and
\* every other record of the table stay as they were.
C12_delete_frame ==
  [][\A kind \in Kinds :
       (pc = menu(kind) /\ last' = Last("delete", kind, "ok", last'.id))
         => LET before == get_tbl(kind)
                after == tbl_next(kind)
            IN /\ Len(after) = Len(before)
               /\ \E at \in Positions(before) :
                    /\ before[at].id = last'.id
                    /\ after[at] = [before[at] EXCEPT !.status = "Deleted"]
                    /\ \A j \in Positions(before) \ {at} : after[j] = before[j]]_vars

\* C13: delete(id) on a record whose status is already Deleted fails with the
\* already-deleted error, and leaves the in-memory table and the table files
\* (the serialized bytes) exactly as they were.
C13_delete_already_deleted ==
  [][\A kind \in Kinds, id \in IdInputs :
       (/\ pc = menu(kind)
        /\ last'.op = "delete"
        /\ HasId(get_tbl(kind), id)
        /\ \A i \in IdPositions(get_tbl(kind), id) :
             get_tbl(kind)[i].status = "Deleted"
        /\ delete(kind, id))
         => /\ last' = Last("delete", kind, "already_deleted", id)
            /\ tbl_next(kind) = get_tbl(kind)
            /\ table_files' = table_files]_vars

\* a delete of a Deleted record was refused
C13_refused ==
  /\ last.op = "delete"
  /\ last.res = "already_deleted"
  /\ \A i \in IdPositions(get_tbl(last.kind), last.id) :
       get_tbl(last.kind)[i].status = "Deleted"

\* C14: a record that is in a table changes in two ways only: delete flips its
\* status to Deleted, and an accepted edit sets its fields, sets its status
\* to Accepted and, for a requirement, raises its version by one. No other
\* operation changes a field of an existing record.
C14_fields_change_by_edit_only ==
  [][\A kind \in Kinds : \A i \in Positions(get_tbl(kind)) :
       LET before == get_tbl(kind)[i]
           after == tbl_next(kind)[i]
       IN after # before
            => \/ /\ last'.op = "delete"
                  /\ after = [before EXCEPT !.status = "Deleted"]
               \/ /\ last'.op = "update"
                  /\ after.status = "Accepted"
                  /\ kind = "requirement" => after.version = before.version + 1]_vars

\* C15: after a successful replace of a table file T (both renames and the
\* removal of T.old went through), T holds exactly the bytes of the new
\* table, and neither T.new nor T.old exists.
C15_replace_postcondition ==
  \A kind \in Kinds :
    (/\ last.kind = kind
     /\ last.res = "ok"
     /\ last.op = (IF kind = "component" THEN "comp_remove_old" ELSE "req_remove_old"))
      => /\ table_files[current_path(kind)] =
              FileContent(serde_header(kind), get_tbl(kind), TRUE)
         /\ ~table_files[new_path(kind)].exists
         /\ ~table_files[old_path(kind)].exists

\* the call of atomic_file_update that is in progress or ran last replaces an
\* existing table file
AfuReplacing == last.op # "start" /\ last.before[AfuCurrent].exists

\* what a reader finds at a path of the directory
AfuAt(path) == table_files[path]

\* C16 (as stated): at every step of a replace, a reader that opens the path
\* T gets the complete old table or the complete new table.
C16_reader_gets_old_or_new ==
  AfuReplacing
    => /\ AfuAt(AfuCurrent).exists
       /\ AfuAt(AfuCurrent) \in {last.before[AfuCurrent], last.file_content}

\* C16 (amended): at every step of a replace, the path T holds the complete
\* old table or the complete new table, never partial or mixed content, or T
\* does not exist: that is the case from the first rename to the second one,
\* and T.old then holds the complete old table.
C16_reader_never_gets_partial ==
  AfuReplacing
    => \/ /\ AfuAt(AfuCurrent) \in {last.before[AfuCurrent], last.file_content}
          /\ AfuAt(AfuCurrent).complete
       \/ /\ ~AfuAt(AfuCurrent).exists
          /\ last.op \in {"afu_rename_old", "afu_rename_new"}
          /\ AfuAt(afu_old(AfuCurrent)) = last.before[AfuCurrent]

\* the first rename went through and the second one has not run: no T
C16_between_renames ==
  /\ AfuReplacing
  /\ pc = "afu_rename_new"
  /\ ~AfuAt(AfuCurrent).exists

\* C17: the table as it was before the update is never lost. A writer that
\* stops after T.new was written and synced and before the first rename
\* leaves T untouched and a complete T.new; a writer that stops between the
\* two renames leaves no T, and T.old holds the exact bytes of T before the
\* update.
C17_old_table_never_lost ==
  /\ (pc = "afu_rename_old" \/ (last.op = "afu_rename_old" /\ last.res = "stopped"))
       => /\ AfuAt(AfuCurrent) = last.before[AfuCurrent]
          /\ AfuAt(afu_new(AfuCurrent)) = last.file_content
          /\ AfuAt(afu_new(AfuCurrent)).complete
  /\ (pc = "afu_rename_new" \/ (last.op = "afu_rename_new" /\ last.res = "stopped"))
       => /\ ~AfuAt(AfuCurrent).exists
          /\ AfuAt(afu_old(AfuCurrent)) = last.before[AfuCurrent]
          /\ AfuAt(afu_old(AfuCurrent)).exists

\* the writer stopped between the two renames of a replace
C17_stopped_between_renames ==
  /\ AfuReplacing
  /\ last.op = "afu_rename_new"
  /\ last.res = "stopped"
  /\ last.before[AfuCurrent] # last.file_content

\* C18: the new file is created exclusively: a table write that starts while
\* T.new exists fails, and leaves T and T.new as they were.
C18_write_refuses_existing_new ==
  [][\A kind \in Kinds :
       (/\ pc = menu(kind)
        /\ table_files[new_path(kind)].exists
        /\ last'.op \in {"insert", "update", "delete", "change_component"}
        /\ last'.res \in {"ok", "io"})
         => /\ last'.res = "io"
            /\ table_files' = table_files]_vars

\* C19: when the rename of T to T.old fails the replace is over: T holds the
\* old table, the complete T.new is still there, and T.new was not renamed
\* onto T.
C19_rename_old_fails ==
  (last.op = "afu_rename_old" /\ last.res = "io")
    => /\ pc = "afu_ready"
       /\ AfuAt(AfuCurrent) = last.before[AfuCurrent]
       /\ AfuAt(afu_new(AfuCurrent)) = last.file_content
       /\ AfuAt(afu_new(AfuCurrent)).complete
       /\ AfuAt(afu_old(AfuCurrent)) = last.before[afu_old(AfuCurrent)]

\* the rename of an existing T to T.old failed
C19_rename_refused ==
  /\ AfuReplacing
  /\ last.op = "afu_rename_old"
  /\ last.res = "io"

\* C20: when the removal of T.old fails after both renames went through, the
\* failure is not fatal: T holds the new table and the replace ends as a
\* success.
C20_remove_failure_not_fatal ==
  [][(pc = "afu_remove_old" /\ last'.op = "afu_remove_old" /\ last'.res # "stopped")
       => /\ last'.res = "ok"
          /\ table_files'[AfuCurrent] = last.file_content]_vars

\* the fields of a record kind that hold text, and those of them that hold
\* one line
TextFields(kind) ==
  IF kind = "component" THEN {"name", "description", "author"}
  ELSE {"title", "requirement_text", "author", "risks"}

SingleLineFields(kind) ==
  IF kind = "component" THEN {"name", "author"} ELSE {"title", "author"}

\* C21: after any sequence of inserts and updates from staged documents, no
\* field of a stored record contains a raw tab, and no single-line field
\* (component name and author, requirement title and author) contains a raw
\* CR or LF.
C21_no_raw_whitespace ==
  \A kind \in Kinds : \A i \in Positions(get_tbl(kind)) :
    /\ \A f \in TextFields(kind) : ~contains_any({TAB}, get_tbl(kind)[i][f])
    /\ \A f \in SingleLineFields(kind) : ~contains_any({CR, LF}, get_tbl(kind)[i][f])

\* C22: a record stored from a staged document holds, in each multi-line
\* field (component description, requirement text, risks), that field's own
\* text with every CRLF and every LF rewritten to backslash + n: no stored
\* multi-line field holds a raw line break, and no field holds the text of
\* another field.
C22_multiline_fields_escaped ==
  [][/\ \A raw \in WsComponentDocInputs :
          (/\ pc = "component_menu"
           /\ Len(components') > Len(components)
           /\ insert_component(raw))
            => components'[Len(components')].description
                 = escape_normalize_nl(raw.description)
     /\ \A component_id \in accepted_components, raw \in WsRequirementDocInputs :
          (/\ pc = "requirement_menu"
           /\ Len(requirements') > Len(requirements)
           /\ insert_requirement(component_id, raw))
            => LET stored == requirements'[Len(requirements')]
               IN /\ stored.requirement_text = escape_normalize_nl(raw.requirement_text)
                  /\ stored.risks = escape_normalize_nl(raw.risks)]_vars

\* C23: no operation removes or reorders rows. An insert adds exactly one
\* record at the end of the table; update, delete and every other operation
\* keep the record count and every record's position (a deleted record
\* stays where it is); the rows of the table as it was serialized are as
\* many as the records in memory.
C23_rows_stay_in_place ==
  [][\A kind \in Kinds :
       LET before == get_tbl(kind)
           after == tbl_next(kind)
           new == new_path(kind)
       IN /\ Len(after) \in {Len(before), Len(before) + 1}
          /\ Len(after) = Len(before) + 1 => last'.op = "insert"
          /\ \A i \in Positions(before) :
               after[i].creation_date = before[i].creation_date
          /\ (pc = menu(kind) /\ table_files'[new] # table_files[new])
               => Len(table_files'[new].rows) = Len(after)]_vars

\* C24: starting from a header-only table, the status of every record is
\* Accepted or Deleted in every reachable state: the insert and update paths
\* never give a row the status Draft.
C24_never_draft ==
  \A kind \in Kinds : \A i \in Positions(get_tbl(kind)) :
    get_tbl(kind)[i].status \in {"Accepted", "Deleted"}

\* a requirement was inserted from a document whose status is Draft
C24_inserted_from_draft ==
  /\ last = Last("insert", "requirement", "ok", last.id)
  /\ requirements # <<>>
  /\ \A raw \in RequirementDocInputs : raw.status = "Draft"

\* C25: the header row that init_project writes for a table names the same
\* columns, in the same order, as the serialized fields of the record type,
\* which is the header the table writer puts before the first record.
C25_init_header_is_serde_header ==
  last = Last("init_project", "project", "ok", NoId)
    => \A kind \in Kinds :
         table_files[current_path(kind)].header = serde_header(kind)

\* C26: init_project fails when one of the two table files exists, and then
\* creates and changes nothing; otherwise (and without an i/o failure) it
\* creates both table files, each with its header row only.
C26_init_project ==
  [][\A fail \in InitFailPoints :
       LET out == init_project_on(table_files, fail)
           either == \E kind \in Kinds : table_files[current_path(kind)].exists
       IN (pc = "init_project" /\ last'.op = "init_project" /\ table_files' = out.files
             /\ last'.res = out.res)
            => /\ either => /\ last'.res \in {"component_exists", "requirement_exists"}
                            /\ table_files' = table_files
               /\ (~either /\ fail = "none")
                    => /\ last'.res = "ok"
                       /\ \A kind \in Kinds :
                            table_files'[current_path(kind)] = HeaderOnly(kind)
                       /\ \A p \in TablePaths \ {COMPONENT_TABLE_NAME, REQUIREMENT_TABLE_NAME} :
                            table_files'[p] = table_files[p]]_vars

\* init_project was refused on a root that holds the requirement table only
C26_refused ==
  /\ last = Last("init_project", "project", "requirement_exists", NoId)
  /\ ~table_files[COMPONENT_TABLE_NAME].exists

\* C28: the store never rejects a requirement because of its component
\* reference: an insert of a requirement is not refused for want of a
\* matching component, also when the component table is empty.
C28_insert_needs_no_component ==
  [][(pc = "requirement_menu" /\ last'.op = "insert")
       => last'.res # "no_components"]_vars

\* the fields of a record that an edit sets
EditableFields(kind) ==
  IF kind = "component" THEN {"name", "description", "author"}
  ELSE {"functional", "title", "requirement_text", "author", "priority", "risks"}

\* C29: an edit document made for a record and read back as it is gives the
\* current values of the record's editable fields, so that an update from it
\* leaves every editable field as it was.
C29_edit_document_round_trip ==
  last.op = "open_edit"
    => /\ last.res = "ok"
       /\ LET at == ref_record_by_id(get_tbl(last.kind), last.id) IN
          \A f \in EditableFields(last.kind) : last.doc[f] = get_tbl(last.kind)[at][f]

\* C30: every draft document and every edit document holds a value for every
\* editable field of its record kind, under the key that the document parser
\* requires for the field.
C30_document_keys ==
  (last.op \in {"new_draft", "edit"} /\ last.res = "ok")
    => EditFileFields(last.kind) \subseteq DOMAIN last.doc

\* C27: a valid table (no raw tab and no raw line break in any field) that is
\* encoded and then decoded comes back as the identical sequence of records,
\* in the same order.
C27_round_trip ==
  last.op = "load"
    => /\ last.res = "ok"
       /\ get_tbl(last.kind) = last.before

\* a table of two records with quotes and an escaped line break was loaded
C27_loaded_quoted ==
  /\ last.op = "load"
  /\ Len(last.before) = 2
  /\ \E i \in 1..2 : \E f \in TextFields(last.kind) :
       /\ contains_any({QUOTE}, last.before[i][f])
       /\ contains_any({BACKSLASH}, last.before[i][f])

\* C31: draft file name generation ends after at most a fixed number of
\* attempts; it succeeds with the first drawn name that does not exist yet and
\* never opens or overwrites an existing document; it fails with the
\* exhaustion error exactly when every attempt drew an existing name.
C31_state ==
  /\ Len(last.tried) <= MaxRetries
  /\ last.before \subseteq staged_files
  /\ \A i \in 1..Len(last.tried) :
       last.tried[i].open_attempt = "AlreadyExists" => last.tried[i].file \in last.before
  /\ last.res \in {"ok", "write_failed"}
       => /\ last.tried[Len(last.tried)].file \notin last.before
          /\ \A i \in 1..(Len(last.tried) - 1) :
               last.tried[i].open_attempt = "AlreadyExists"
          /\ staged_files = last.before \cup {last.tried[Len(last.tried)].file}
  /\ last.res = "exhausted"
       <=> /\ pc = "done"
           /\ Len(last.tried) = MaxRetries
           /\ \A i \in 1..MaxRetries : last.tried[i].open_attempt = "AlreadyExists"

C31_get_rand_file_terminates == []C31_state /\ <>(pc = "done")

\* every attempt collided and the loop gave up
C31_exhausted == last.res = "exhausted" /\ Len(last.tried) = MaxRetries

\* a free name was found after a collision
C31_second_attempt_created == last.res = "ok" /\ Len(last.tried) = 2

\* C32: an operation that the operator cancels at a prompt before its persist
\* step (the id prompt, the file or component selection, the delete
\* confirmation) returns without error and leaves the in-memory tables and
\* all files on disk unchanged.
C32_cancel_changes_nothing ==
  [][last'.res = "cancel"
       => UNCHANGED <<components, requirements, table_files, staged_files>>]_vars

\* the confirmation of a delete of an existing, not yet deleted record was declined
C32_delete_declined ==
  /\ last.op = "delete"
  /\ last.res = "cancel"
  /\ HasId(get_tbl(last.kind), last.id)

\* both runs loaded the table before either replaced it, both inserted, and
\* both ended with Ok(())
BothSucceeded ==
  \A p \in Procs : pc[p] = "done" /\ updated_component[p] /\ last.loaded[p] = 0

\* C33: two runs that mutate the same table at the same time, with no lock,
\* can both report success while the table file ends up with the update of
\* only one of them: the other update is lost without an error.
C33_last_writer_wins ==
  BothSucceeded
    => /\ table_files[COMPONENT_TABLE_NAME].exists
       /\ \E p \in Procs : table_files[COMPONENT_TABLE_NAME].rows = components[p]
       /\ Len(table_files[COMPONENT_TABLE_NAME].rows) = 1

\* both runs succeeded and the record of run 1 is not in the table file
C33_update_lost ==
  /\ BothSucceeded
  /\ \A i \in 1..Len(table_files[COMPONENT_TABLE_NAME].rows) :
       table_files[COMPONENT_TABLE_NAME].rows[i].name # ProcName(1)

\* C34: after any sequence of successful inserts and updates that starts from
\* a header-only table, no two component records have the same name, and no
\* two requirement records have the same title or the same requirement text.
UniqueNames(comps, reqs) ==
  /\ \A i \in Positions(comps) : \A j \in Positions(comps) :
       i # j => comps[i].name # comps[j].name
  /\ \A i \in Positions(reqs) : \A j \in Positions(reqs) :
       i # j => /\ reqs[i].title # reqs[j].title
                /\ reqs[i].requirement_text # reqs[j].requirement_text

C34_unique_names ==
  [][(last'.op \in {"insert", "update"} /\ last'.res = "ok"
        /\ UniqueNames(components, requirements))
       => UniqueNames(components', requirements')]_vars

\* C35: the record id that update_record parses out of the file name of an
\* edit document equals the id that create_edit_file put in it: the document
\* created for a record is accepted by update and applied to that record.
C35_edit_file_name_round_trip ==
  (last.op = "edit" /\ last.res = "ok")
    => LET records == get_tbl(last.kind)
           id == records[ref_record_by_id(records, last.id)].id
           edit_file_entry == edit_file_name(edit_prefix(last.kind), id)
       IN /\ edit_file_entry \in staged_files
          /\ parse_u64(edit_file_entry.mid) = id

\* at the end of main: the file of a table that was written holds the table
\* in memory, and no sibling is left
C36_at_shutdown ==
  pc = "done"
    => \A kind \in Kinds :
         /\ ~table_files[new_path(kind)].exists
         /\ ~table_files[old_path(kind)].exists
         /\ updated(kind)
              => table_files[current_path(kind)]
                   = FileContent(serde_header(kind), get_tbl(kind), TRUE)

\* the file of a table that was not written is never touched, and no table
\* file changes before the shutdown
C36_untouched ==
  \A kind \in Kinds :
    (~updated(kind)' \/ pc \in {"component_menu", "requirement_menu"})
      => table_files'[current_path(kind)] = table_files[current_path(kind)]

C37_component_replace_still_runs ==
  [][(updated_component /\ updated_requirement
        /\ last.op = "req_rename_old" /\ last.res = "io")
       => pc' = "comp_rename_old"]_vars

\* C38: when a requirement's component_id is assigned, by insert or by
\* change-component, the assigned value is the id of a component whose
\* status is Accepted; Draft and Deleted components are never offered or
\* assigned.
C38_assigned_component_is_accepted ==
  [][\A i \in Positions(requirements') :
       (i > Len(requirements)
          \/ requirements'[i].component_id # requirements[i].component_id)
         => \A j \in Positions(components) :
              components[j].id = requirements'[i].component_id
                => components[j].status = "Accepted"]_vars

\* change_component moved a requirement to the second Accepted component
C38_component_changed ==
  /\ last.op = "change_component"
  /\ last.res = "ok"
  /\ \E i \in Positions(requirements) : requirements[i].component_id = 3

\* C39: find_component_by_id(id, components) returns a component whose id is
\* id whenever there is one, in whatever order the list is, and returns none,
\* rendered as "Not Found" without an error, exactly when no component has
\* that id.
C39_find_component_by_id ==
  last.op = "find"
    => IF HasId(components, last.id)
       THEN /\ last.found # NotFound
            /\ components[last.found].id = last.id
            /\ last.text = fmt_u64(last.id) \o <<" ", "-", " ">>
                             \o components[last.found].name
       ELSE /\ last.found = NotFound
            /\ last.text = <<"N", "o", "t", " ", "F", "o", "u", "n", "d">>

\* the component is found by the scan: another component is at its index
C39_found_out_of_place ==
  /\ last.op = "find"
  /\ last.found # NotFound
  /\ last.found # last.id + 1
  /\ last.id + 1 <= Len(components)

====
